---- MODULE Spec2Model ----
\* A model of the kvs log-structured store (core/src/store.rs): the directory of
\* <N>.log files as byte sequences, the shared store behind the clonable handle
\* (Arc<RwLock<SharedKvStore>>), and the handlers set / get / remove / open with
\* compaction taken statement by statement under the write lock.
EXTENDS Integers, Sequences, FiniteSets, TLC

\* ------------------------------------------------------------------ bounds

\* The source compacts at 50 stale operations (core/src/store.rs:37). The model
\* runs the same code with a smaller threshold, so that a compaction is reached
\* in a few operations.
COMPACTION_LIMIT == 2

\* Greatest log file number the model lets a compaction create.
MaxMonotonic == 3

\* Worker threads that may hold a handle.
Threads == {1, 2}

\* Keys and values as UTF-8 byte strings: "a", "b"; "1", "22".
Keys == {<<97>>, <<98>>}
Values == {<<49>>, <<50, 50>>}

\* compactions is a u16.
U16_MOD == 65536

\* ------------------------------------------------------------------ bincode

\* Little-endian encoding of n < 65536 in w bytes.
LEBytes(n, w) ==
    [i \in 1..w |-> IF i = 1 THEN n % 256
                    ELSE IF i = 2 THEN (n \div 256) % 256
                    ELSE 0]

\* A String: its length as u64, then its bytes.
EncodeStr(s) == LEBytes(Len(s), 8) \o s

\* Op::Set is variant 0, Op::Rm is variant 1; the tag is a u32.
OpSet(k, v) == [tag |-> "Set", key |-> k, value |-> v]
OpRm(k) == [tag |-> "Rm", key |-> k]

serialize(op) ==
    IF op.tag = "Set"
    THEN LEBytes(0, 4) \o EncodeStr(op.key) \o EncodeStr(op.value)
    ELSE LEBytes(1, 4) \o EncodeStr(op.key)

\* The value of a little-endian field, or -1 when it is 65536 or more (more
\* than any file of the model holds).
LEValue(bs) ==
    IF \E i \in 3..Len(bs) : bs[i] # 0 THEN -1 ELSE bs[1] + 256 * bs[2]

\* Reading a String at byte offset pos of file f. A read past the end of the
\* file fails and leaves the offset at the end.
DecodeStr(f, pos) ==
    IF pos + 8 > Len(f) THEN [ok |-> FALSE, next |-> Len(f)]
    ELSE LET n == LEValue(SubSeq(f, pos + 1, pos + 8)) IN
         IF n < 0 \/ pos + 8 + n > Len(f) THEN [ok |-> FALSE, next |-> Len(f)]
         ELSE LET s == SubSeq(f, pos + 9, pos + 8 + n) IN
              IF \E i \in 1..n : s[i] >= 128
              THEN [ok |-> FALSE, next |-> pos + 8 + n]
              ELSE [ok |-> TRUE, str |-> s, next |-> pos + 8 + n]

\* Reading one Op at byte offset pos of file f: [ok, op, next], next being the
\* offset the reader is left at.
deserialize_from(f, pos) ==
    IF pos + 4 > Len(f) THEN [ok |-> FALSE, next |-> IF pos > Len(f) THEN pos ELSE Len(f)]
    ELSE LET t == LEValue(SubSeq(f, pos + 1, pos + 4)) IN
         IF t \notin {0, 1} THEN [ok |-> FALSE, next |-> pos + 4]
         ELSE LET k == DecodeStr(f, pos + 4) IN
              IF ~k.ok THEN k
              ELSE IF t = 1 THEN [ok |-> TRUE, op |-> OpRm(k.str), next |-> k.next]
              ELSE LET v == DecodeStr(f, k.next) IN
                   IF ~v.ok THEN v
                   ELSE [ok |-> TRUE, op |-> OpSet(k.str, v.str), next |-> v.next]

\* ------------------------------------------------------------------ results

Ok == [tag |-> "Ok"]
OkNone == [tag |-> "Ok", some |-> FALSE]
OkSome(v) == [tag |-> "Ok", some |-> TRUE, value |-> v]
ErrKeyNotFound(k) == [tag |-> "Err", kind |-> "KeyNotFound", key |-> k]
ErrSerialization == [tag |-> "Err", kind |-> "Serialization"]

\* ------------------------------------------------------------------ maps

Insert(m, k, x) == [y \in DOMAIN m \cup {k} |-> IF y = k THEN x ELSE m[y]]
Delete(m, k) == [y \in DOMAIN m \ {k} |-> m[y]]
MaxOf(S) == CHOOSE n \in S : \A m \in S : m <= n
MinOf(S) == CHOOSE n \in S : \A m \in S : n <= m

LogPtr(file_num, pos) == [file_num |-> file_num, pos |-> pos]

\* compactions += 1 on a u16.
Add1U16(c) == (c + 1) % U16_MOD

\* ------------------------------------------------------------------ names
\* A file name is the sequence of its characters.

\* LOG_EXT with its dot.
DotLog == <<".", "l", "o", "g">>

\* char::to_digit(10): the value of an ASCII decimal digit, -1 for another char.
DigitChars == <<"0", "1", "2", "3", "4", "5", "6", "7", "8", "9">>
to_digit(c) ==
    IF \E i \in 1..10 : DigitChars[i] = c
    THEN (CHOOSE i \in 1..10 : DigitChars[i] = c) - 1
    ELSE -1

\* format!("{}", n) for an unsigned n.
RECURSIVE to_string(_)
to_string(n) ==
    IF n < 10 THEN <<DigitChars[n + 1]>>
    ELSE to_string(n \div 10) \o <<DigitChars[(n % 10) + 1]>>

\* format!("{}.log", n)
FileName(n) == to_string(n) \o DotLog

\* str::ends_with
ends_with(name, suffix) ==
    /\ Len(name) >= Len(suffix)
    /\ SubSeq(name, Len(name) - Len(suffix) + 1, Len(name)) = suffix

\* str::starts_with
starts_with(text, prefix) ==
    /\ Len(text) >= Len(prefix)
    /\ SubSeq(text, 1, Len(prefix)) = prefix

\* Path::ends_with for the path of a directory entry and a one-component
\* child: whole components are compared, so it holds when the entry's file
\* name is the child.
path_ends_with(name, child) == name = child

\* The digits of the whole name, not of its leading run only.
filter_digit(name) ==
    SelectSeq(name, LAMBDA c : to_digit(c) >= 0)

\* chars().take_while(|c| c.is_digit(10)): the leading run of digits.
RECURSIVE take_while_digit(_)
take_while_digit(name) ==
    IF name = <<>> \/ to_digit(Head(name)) < 0 THEN <<>>
    ELSE <<Head(name)>> \o take_while_digit(Tail(name))

\* str::parse::<u64> of a run of digits: the run's decimal value, an error for
\* the empty run. (No name of the model has digits enough to pass u64::MAX.)
RECURSIVE parse_u64(_)
parse_u64(digits) ==
    IF digits = <<>> THEN -1
    ELSE IF Len(digits) = 1 THEN to_digit(digits[1])
    ELSE 10 * parse_u64(SubSeq(digits, 1, Len(digits) - 1)) + to_digit(digits[Len(digits)])

None == [some |-> FALSE]
Some(x) == [some |-> TRUE, value |-> x]

\* SharedKvStore::parse_file_num
parse_file_num(file_name) ==
    IF parse_u64(take_while_digit(file_name)) < 0 THEN None
    ELSE Some(parse_u64(take_while_digit(file_name)))

\* The numbers in S in ascending order, n taken cnt[n] times.
RECURSIVE sorted(_, _)
sorted(S, cnt) ==
    IF S = {} THEN <<>>
    ELSE [i \in 1..cnt[CHOOSE n \in S : \A m \in S : n <= m] |->
             CHOOSE n \in S : \A m \in S : n <= m]
         \o sorted(S \ {CHOOSE n \in S : \A m \in S : n <= m}, cnt)

\* The filter_map of sorted_file_nums: the entries that yield a number.
log_entries(entries) ==
    {e \in entries : ~e.is_dir /\ ends_with(e.name, DotLog) /\ parse_file_num(e.name).some}

\* The body of sorted_file_nums on the entries read_dir yields: the numbers
\* of the log files, sorted.
log_file_nums(entries) ==
    sorted({parse_file_num(e.name).value : e \in log_entries(entries)},
           [n \in {parse_file_num(e.name).value : e \in log_entries(entries)} |->
               Cardinality({e \in log_entries(entries) : parse_file_num(e.name).value = n})])

\* read_dir: the logs of d under their names, and the other entries.
read_dir(d, others) ==
    {[name |-> FileName(n), is_dir |-> FALSE] : n \in DOMAIN d} \cup others

\* ------------------------------------------------------------------ files
\* The directory d maps the number N of every existing <N>.log to its bytes.

\* OpenOptions create(true).read(true).append(true): the file is created when
\* it is missing; an open never truncates.
open_file(d, n) == IF n \in DOMAIN d THEN d ELSE Insert(d, n, <<>>)

\* A write on an append-mode descriptor goes to the end of the file.
write_all(d, n, bytes) == [d EXCEPT ![n] = @ \o bytes]

\* read_dir, keep the <digits>.log files, sort: the numbers open goes through
\* in ascending order. (Where a store is opened the directory holds beside its
\* logs no entry whose name ends in ".log".)
sorted_file_nums(d) ==
    {log_file_nums(read_dir(d, {}))[i] : i \in 1..Len(log_file_nums(read_dir(d, {})))}

\* deserialize_from at the reader's offset, then the match of value_at_pos:
\* [res, next], next being the offset the reader is left at.
read_value(f, off) ==
    LET r == deserialize_from(f, off) IN
    IF ~r.ok THEN [res |-> ErrSerialization, next |-> r.next]
    ELSE IF r.op.tag = "Set" THEN [res |-> OkSome(r.op.value), next |-> r.next]
    ELSE [res |-> ErrKeyNotFound(r.op.key), next |-> r.next]

\* seek(SeekFrom::Start(pos)), then read.
value_at_pos(f, pos) == read_value(f, pos)

\* ------------------------------------------------------------------ open

\* ReplayOp with the Rm arm not counted.
ReplayOp_rm_uncounted(acc, op, file_num, pos) ==
    IF op.tag = "Set"
    THEN [index |-> Insert(acc.index, op.key, LogPtr(file_num, pos)),
          compactions |-> IF op.key \in DOMAIN acc.index
                          THEN Add1U16(acc.compactions) ELSE acc.compactions]
    ELSE [index |-> Delete(acc.index, op.key),
          compactions |-> acc.compactions]

\* ReplayOp with the Rm arm leaving the index entry in place.
ReplayOp_keep_removed(acc, op, file_num, pos) ==
    IF op.tag = "Set"
    THEN [index |-> Insert(acc.index, op.key, LogPtr(file_num, pos)),
          compactions |-> IF op.key \in DOMAIN acc.index
                          THEN Add1U16(acc.compactions) ELSE acc.compactions]
    ELSE [index |-> acc.index,
          compactions |-> Add1U16(acc.compactions)]

\* One record of the replay loop of open: acc is [index, compactions].
ReplayOp(acc, op, file_num, pos) ==
    IF op.tag = "Set"
    THEN [index |-> Insert(acc.index, op.key, LogPtr(file_num, pos)),
          compactions |-> IF op.key \in DOMAIN acc.index
                          THEN Add1U16(acc.compactions) ELSE acc.compactions]
    ELSE [index |-> Delete(acc.index, op.key),
          compactions |-> Add1U16(acc.compactions)]

\* The loop over one file: records are decoded from offset 0 until a decode
\* fails.
RECURSIVE ReplayFile(_, _, _, _)
ReplayFile(f, file_num, pos, acc) ==
    LET r == deserialize_from(f, pos) IN
    IF ~r.ok THEN acc
    ELSE ReplayFile(f, file_num, r.next, ReplayOp(acc, r.op, file_num, pos))

\* The loop over the files, in ascending order of their numbers.
RECURSIVE ReplayFiles(_, _, _)
ReplayFiles(d, nums, acc) ==
    IF nums = {} THEN acc
    ELSE LET n == MinOf(nums) IN
         ReplayFiles(d, nums \ {n}, ReplayFile(d[n], n, 0, acc))

\* open that starts the store with compactions = 0 whatever the replay counted.
open_uncounted(d) ==
    LET nums == sorted_file_nums(d)
        built == ReplayFiles(d, nums, [index |-> <<>>, compactions |-> 0])
        monotonic == IF nums = {} THEN 1 ELSE MaxOf(nums)
    IN [store |-> [log_file |-> [num |-> monotonic, off |-> 0],
                   index |-> built.index,
                   compactions |-> 0,
                   monotonic |-> monotonic,
                   writer |-> 0,
                   readers |-> {}],
        disk |-> open_file(d, monotonic)]

\* KvStore::open: the store it builds and the directory it leaves.
open(d) ==
    LET nums == sorted_file_nums(d)
        built == ReplayFiles(d, nums, [index |-> <<>>, compactions |-> 0])
        monotonic == IF nums = {} THEN 1 ELSE MaxOf(nums)
    IN [store |-> [log_file |-> [num |-> monotonic, off |-> 0],
                   index |-> built.index,
                   compactions |-> built.compactions,
                   monotonic |-> monotonic,
                   writer |-> 0,
                   readers |-> {}],
        disk |-> open_file(d, monotonic)]

\* ------------------------------------------------------------------ set, get, remove

compact_maybe(s) == s.compactions >= COMPACTION_LIMIT

\* remove that appends the Rm record and leaves the index entry of the key.
remove_keep_index(s, d, k) ==
    IF k \notin DOMAIN s.index
    THEN [store |-> s, disk |-> d, res |-> ErrKeyNotFound(k), compact |-> FALSE]
    ELSE [store |-> [s EXCEPT !.log_file.off = Len(d[s.log_file.num]) + Len(serialize(OpRm(k))),
                              !.compactions = Add1U16(@)],
          disk |-> write_all(d, s.log_file.num, serialize(OpRm(k))),
          res |-> Ok,
          compact |-> Add1U16(s.compactions) >= COMPACTION_LIMIT]

\* set that counts every set as one that displaced an entry.
set_counts_every(s, d, k, v) ==
    [store |-> [s EXCEPT !.log_file.off = Len(d[s.log_file.num]) + Len(serialize(OpSet(k, v))),
                         !.index = Insert(s.index, k, LogPtr(s.monotonic, Len(d[s.log_file.num]))),
                         !.compactions = Add1U16(@)],
     disk |-> write_all(d, s.log_file.num, serialize(OpSet(k, v))),
     compact |-> Add1U16(s.compactions) >= COMPACTION_LIMIT]

\* set with the position taken after the write instead of before it.
set_pos_after_write(s, d, k, v) ==
    LET n == s.log_file.num
        d2 == write_all(d, n, serialize(OpSet(k, v)))
        pos == Len(d2[n])
        displaced == k \in DOMAIN s.index
        s2 == [s EXCEPT !.log_file.off = Len(d2[n]),
                        !.index = Insert(s.index, k, LogPtr(s.monotonic, pos)),
                        !.compactions = IF displaced THEN Add1U16(@) ELSE @]
    IN [store |-> s2, disk |-> d2, compact |-> displaced /\ compact_maybe(s2)]

\* KvStore::set up to the call of compact: [store, disk, compact], compact
\* telling whether compact_maybe calls compact.
set(s, d, k, v) ==
    LET n == s.log_file.num
        pos == Len(d[n])
        d2 == write_all(d, n, serialize(OpSet(k, v)))
        displaced == k \in DOMAIN s.index
        s2 == [s EXCEPT !.log_file.off = Len(d2[n]),
                        !.index = Insert(s.index, k, LogPtr(s.monotonic, pos)),
                        !.compactions = IF displaced THEN Add1U16(@) ELSE @]
    IN [store |-> s2, disk |-> d2, compact |-> displaced /\ compact_maybe(s2)]

\* KvStore::get run without interruption: [res, off], off being the offset
\* log_file is left at.
get(s, d, k) ==
    IF k \in DOMAIN s.index
    THEN LET r == value_at_pos(d[s.log_file.num], s.index[k].pos) IN
         [res |-> r.res, off |-> r.next]
    ELSE [res |-> OkNone, off |-> s.log_file.off]

\* remove without the contains_key check.
remove_unchecked(s, d, k) ==
    LET n == s.log_file.num
        d2 == write_all(d, n, serialize(OpRm(k)))
        s2 == [s EXCEPT !.log_file.off = Len(d2[n]),
                        !.index = Delete(s.index, k),
                        !.compactions = Add1U16(@)]
    IN [store |-> s2, disk |-> d2, res |-> Ok, compact |-> compact_maybe(s2)]

\* KvStore::remove up to the call of compact: [store, disk, res, compact]; res
\* is the error of the early return, or Ok.
remove(s, d, k) ==
    IF k \notin DOMAIN s.index
    THEN [store |-> s, disk |-> d, res |-> ErrKeyNotFound(k), compact |-> FALSE]
    ELSE LET n == s.log_file.num
             d2 == write_all(d, n, serialize(OpRm(k)))
             s2 == [s EXCEPT !.log_file.off = Len(d2[n]),
                             !.index = Delete(s.index, k),
                             !.compactions = Add1U16(@)]
         IN [store |-> s2, disk |-> d2, res |-> Ok, compact |-> compact_maybe(s2)]

\* What get returns for every key, were it called now.
View(s, d) == [k \in Keys |-> get(s, d, k).res]

\* ------------------------------------------------------------------ compact

\* compact_rewrite with log_ptr.pos left as it was.
compact_rewrite_old_pos(s, d, new_log, k, r, active) ==
    LET s1 == IF active THEN [s EXCEPT !.log_file.off = r.next] ELSE s IN
    IF r.res.tag = "Err"
    THEN [store |-> s1, disk |-> d, new_log |-> new_log, res |-> r.res]
    ELSE LET d2 == write_all(d, new_log.num, serialize(OpSet(k, r.res.value)))
         IN [store |-> [s1 EXCEPT !.index[k] = LogPtr(s.monotonic + 1, s.index[k].pos)],
             disk |-> d2,
             new_log |-> [new_log EXCEPT !.off = Len(d2[new_log.num])],
             res |-> Ok]

\* compact_rewrite with log_ptr.file_num left as it was.
compact_rewrite_old_file(s, d, new_log, k, r, active) ==
    LET s1 == IF active THEN [s EXCEPT !.log_file.off = r.next] ELSE s IN
    IF r.res.tag = "Err"
    THEN [store |-> s1, disk |-> d, new_log |-> new_log, res |-> r.res]
    ELSE LET d2 == write_all(d, new_log.num, serialize(OpSet(k, r.res.value)))
         IN [store |-> [s1 EXCEPT !.index[k] = LogPtr(s.index[k].file_num, Len(d[new_log.num]))],
             disk |-> d2,
             new_log |-> [new_log EXCEPT !.off = Len(d2[new_log.num])],
             res |-> Ok]

\* The second half of the body of the for loop of compact for the index entry
\* of k, r being what value_at_pos returned and active telling whether it read
\* through log_file: [store, disk, new_log, res].
compact_rewrite(s, d, new_log, k, r, active) ==
    LET s1 == IF active THEN [s EXCEPT !.log_file.off = r.next] ELSE s IN
    IF r.res.tag = "Err"
    THEN [store |-> s1, disk |-> d, new_log |-> new_log, res |-> r.res]
    ELSE LET pos == Len(d[new_log.num])
             d2 == write_all(d, new_log.num, serialize(OpSet(k, r.res.value)))
         IN [store |-> [s1 EXCEPT !.index[k] = LogPtr(s.monotonic + 1, pos)],
             disk |-> d2,
             new_log |-> [new_log EXCEPT !.off = Len(d2[new_log.num])],
             res |-> Ok]

\* The body of the for loop of compact for the index entry of k. The value is
\* read through log_file when the entry's file is the active one, through a
\* descriptor opened on the entry's file otherwise.
compact_entry(s, d, new_log, k) ==
    IF s.index[k].file_num = s.monotonic
    THEN compact_rewrite(s, d, new_log, k,
                         value_at_pos(d[s.log_file.num], s.index[k].pos), TRUE)
    ELSE compact_rewrite(s, open_file(d, s.index[k].file_num), new_log, k,
                         value_at_pos(open_file(d, s.index[k].file_num)[s.index[k].file_num],
                                      s.index[k].pos), FALSE)

\* remove_file that leaves the file.
remove_file_keep(d, n) == d

\* remove_file(<monotonic>.log)
remove_file(d, n) == Delete(d, n)

\* The last three assignments of compact.
compact_swap(s, new_log) ==
    [s EXCEPT !.log_file = new_log, !.compactions = 0, !.monotonic = @ + 1]

\* A clone that copies the store instead of sharing it.
clone_copy(hp, a) ==
    LET b == CHOOSE x \in {1, 2} : x \notin DOMAIN hp IN
    [heap |-> [x \in DOMAIN hp \cup {b} |->
                  IF x = b THEN [hp[a] EXCEPT !.writer = 0, !.readers = {}] ELSE hp[x]],
     handle |-> b]

\* #[derive(Clone)] on KvStore(Arc<RwLock<SharedKvStore>>): the clone of a
\* handle is a handle on the same shared store. hp is the heap, a the address
\* the cloned handle holds: [heap, handle].
clone(hp, a) == [heap |-> hp, handle |-> a]

\* ------------------------------------------------------------------ tree-backed engine
\* sled::Db is used through its interface: a persistent map whose calls succeed.

ErrIo(cause) == [tag |-> "Err", kind |-> "Io", cause |-> cause]

\* What sled::open leaves in the directory it opens.
SledFiles ==
    {[name |-> <<"c", "o", "n", "f">>, is_dir |-> FALSE],
     [name |-> <<"d", "b">>, is_dir |-> FALSE],
     [name |-> <<"b", "l", "o", "b", "s">>, is_dir |-> TRUE]}

\* SledEngine::open, the check of the directory: whether an entry that is not
\* a directory has a path that ends_with ".log".
contains_kvs_files(entries) ==
    \E e \in entries : ~e.is_dir /\ path_ends_with(e.name, DotLog)

\* SledEngine::open on the database db and the directory entries:
\* [db, created, res], created being the entries sled::open adds.
sled_open(db, entries) ==
    IF contains_kvs_files(entries)
    THEN [db |-> db, created |-> {}, res |-> ErrIo("InvalidInput")]
    ELSE [db |-> [db EXCEPT !.open = TRUE], created |-> SledFiles, res |-> Ok]

\* SledEngine::set: [db, res].
sled_set(db, k, v) == [db |-> [db EXCEPT !.map = Insert(db.map, k, v)], res |-> Ok]

\* SledEngine::get
sled_get(db, k) == IF k \in DOMAIN db.map THEN OkSome(db.map[k]) ELSE OkNone

\* SledEngine::remove answering Ok with the entry left in place.
sled_remove_keep(db, k) ==
    IF k \in DOMAIN db.map
    THEN [db |-> db, res |-> Ok]
    ELSE [db |-> db, res |-> ErrKeyNotFound(k)]

\* SledEngine::remove: [db, res].
sled_remove(db, k) ==
    IF k \in DOMAIN db.map
    THEN [db |-> [db EXCEPT !.map = Delete(db.map, k)], res |-> Ok]
    ELSE [db |-> db, res |-> ErrKeyNotFound(k)]

\* ------------------------------------------------------------------ state

VARIABLES
    disk,     \* the directory: N |-> the bytes of <N>.log
    heap,     \* address |-> the SharedKvStore allocated there
    handle,   \* handle[t]: the address the KvStore handle of thread t holds, 0 for none
    pc,       \* pc[t]: where thread t is in the handler it runs
    loc,      \* loc[t]: the call thread t is in and the locals of its handler
    ret,      \* the call that started or returned last, with what it returned
    shadow,   \* for every key, the value of its latest set, OkNone after a remove
    setter,   \* for every key, the thread of its latest set or remove, 0 for none
    ops,      \* sets and removes made so far when their number is bounded, else -1
    ref,      \* the same calls run on a store that never compacts
    dir,      \* the entries of the directory other than the logs of disk
    tree,     \* the database of the tree-backed engine
    queue,    \* the SegQueue<Message> of the pool
    worker,   \* worker[w]: what the pool thread w does
    pool,     \* the SharedQueueThreadPool: its life, the handles drop still joins,
              \* and the jobs spawned, started and finished so far
    conn      \* conn[c]: the TCP connection c, its two directions and its handler

storeVars == <<disk, heap, handle, pc, loc, ret, shadow, setter, ops, ref>>
serverVars == <<dir, tree, queue, worker, pool, conn>>
vars == <<disk, heap, handle, pc, loc, ret, shadow, setter, ops, ref,
          dir, tree, queue, worker, pool, conn>>

\* Pool threads and connections the model has.
Workers == {1, 2}
Conns == {1, 2}

NoTree == [open |-> FALSE, map |-> <<>>]
NoJob == [tag |-> "None"]
NoWorker == [state |-> "none", job |-> NoJob, shutdowns |-> 0]
NoPool == [state |-> "none", handles |-> <<>>, size |-> 0, spawned |-> 0, pushed |-> 0,
           started |-> <<>>, done |-> {}]
NoRequest == [tag |-> "None"]
NoResult == [tag |-> "None"]
\* state, sent, out: the connection, what the client wrote that the server has
\* not read, what the server wrote; step, req, res: where its handler is, the
\* request it decoded, what the engine returned; method, client, cli: the call
\* of the client, what it returned, what the command line did with it;
\* nsent, decoded, calls, held: the requests written, the requests decoded,
\* the engine calls made, what the engine held for the key before the call.
NoConn == [state |-> "none", sent |-> <<>>, out |-> <<>>,
           step |-> "none", req |-> NoRequest, res |-> NoResult,
           method |-> NoRequest, client |-> NoResult, cli |-> NoResult,
           nsent |-> 0, decoded |-> 0, calls |-> 0, held |-> NoResult]

\* The server side before anything is started.
InitServer ==
    /\ tree = NoTree
    /\ queue = <<>>
    /\ worker = [w \in Workers |-> NoWorker]
    /\ pool = NoPool
    /\ conn = [c \in Conns |-> NoConn]

Pending == [tag |-> "Pending"]
Call(t, op, k, v, res) == [thread |-> t, op |-> op, key |-> k, value |-> v, res |-> res]
NoCall == Call(0, "none", <<>>, <<>>, Ok)

NoStore == [closed |-> TRUE]
NoLoc == [call |-> NoCall, new_log |-> [num |-> 0, off |-> 0], todo |-> {}]

\* Sets and removes made in a run that bounds them.
MaxOps == 4

\* bounded: the run makes MaxOps sets and removes at most; on: the reference
\* store runs beside the store.
InitWith(bounded, on) ==
    /\ disk = <<>>
    /\ heap = <<>>
    /\ handle = [t \in Threads |-> 0]
    /\ pc = [t \in Threads |-> "idle"]
    /\ loc = [t \in Threads |-> NoLoc]
    /\ ret = NoCall
    /\ shadow = [k \in Keys |-> OkNone]
    /\ setter = [k \in Keys |-> 0]
    /\ ops = IF bounded THEN 0 ELSE -1
    /\ ref = [on |-> on, store |-> NoStore, disk |-> <<>>]
    /\ dir = {}
    /\ InitServer

Init == InitWith(FALSE, FALSE)
InitBounded == InitWith(TRUE, FALSE)
InitRef == InitWith(TRUE, TRUE)

\* The store behind the handle of thread t.
StoreOf(t) == heap[handle[t]]

\* The lock of the RwLock: write() needs no reader and no writer, read() needs
\* no writer.
CanWrite(t) ==
    /\ handle[t] # 0 /\ pc[t] = "idle"
    /\ StoreOf(t).writer = 0 /\ StoreOf(t).readers = {}
CanRead(t) ==
    /\ handle[t] # 0 /\ pc[t] = "idle"
    /\ StoreOf(t).writer = 0

\* One more set or remove.
Room == ops < MaxOps
Counted == IF ops < 0 THEN ops ELSE ops + 1

\* A call on the reference store: the same code, compact never called.
RefOpen == IF ref.on THEN [ref EXCEPT !.store = open(ref.disk).store,
                                      !.disk = open(ref.disk).disk]
           ELSE ref
RefClose == IF ref.on THEN [ref EXCEPT !.store = NoStore] ELSE ref
RefSet(k, v) ==
    IF ref.on THEN [ref EXCEPT !.store = set(ref.store, ref.disk, k, v).store,
                               !.disk = set(ref.store, ref.disk, k, v).disk]
    ELSE ref
RefRemove(k) ==
    IF ref.on THEN [ref EXCEPT !.store = remove(ref.store, ref.disk, k).store,
                               !.disk = remove(ref.store, ref.disk, k).disk]
    ELSE ref

\* ------------------------------------------------------------------ actions

\* Thread t starts the call c; the handler returns in the same step unless the
\* result is Pending.
Called(t, c) ==
    /\ ret' = c
    /\ loc' = [loc EXCEPT ![t].call = IF c.res = Pending THEN c ELSE NoCall]

\* The handler thread t is in returns res.
Returned(t, res) ==
    /\ ret' = [loc[t].call EXCEPT !.res = res]
    /\ loc' = [loc EXCEPT ![t] = NoLoc]
    /\ pc' = [pc EXCEPT ![t] = "idle"]

\* KvStore::open by a thread when no store is open on the directory (and the
\* process has not opened the other engine).
Open(t) ==
    /\ DOMAIN heap = {}
    /\ ~tree.open
    /\ pc[t] = "idle"
    /\ heap' = (1 :> open(disk).store)
    /\ disk' = open(disk).disk
    /\ handle' = [handle EXCEPT ![t] = 1]
    /\ Called(t, Call(t, "open", <<>>, <<>>, Ok))
    /\ ref' = RefOpen
    /\ UNCHANGED <<pc, shadow, setter, ops>>
    /\ UNCHANGED serverVars

\* Thread u gets a clone of the handle of thread t.
Clone(t, u) ==
    /\ handle[t] # 0 /\ pc[t] = "idle"
    /\ handle[u] = 0
    /\ heap' = clone(heap, handle[t]).heap
    /\ handle' = [handle EXCEPT ![u] = clone(heap, handle[t]).handle]
    /\ Called(u, Call(u, "clone", <<>>, <<>>, Ok))
    /\ UNCHANGED <<disk, pc, shadow, setter, ops, ref>>
    /\ UNCHANGED serverVars

\* A handle is dropped; the store goes with the last handle on it.
Close(t) ==
    /\ handle[t] # 0 /\ pc[t] = "idle"
    /\ handle' = [handle EXCEPT ![t] = 0]
    /\ heap' = [a \in {handle[u] : u \in Threads \ {t}} \ {0} |-> heap[a]]
    /\ ref' = IF \E u \in Threads \ {t} : handle[u] # 0 THEN ref ELSE RefClose
    /\ Called(t, Call(t, "close", <<>>, <<>>, Ok))
    /\ UNCHANGED <<disk, pc, shadow, setter, ops>>
    /\ UNCHANGED serverVars

\* What a handler that may go on to compact leaves: r is [store, disk, compact].
\* When compact_maybe calls compact the thread goes on, holding the write lock.
Handled(t, r) ==
    /\ r.compact => StoreOf(t).monotonic < MaxMonotonic
    /\ heap' = [heap EXCEPT ![handle[t]] =
                   [r.store EXCEPT !.writer = IF r.compact THEN t ELSE 0]]
    /\ disk' = r.disk
    /\ pc' = [pc EXCEPT ![t] = IF r.compact THEN "compact" ELSE "idle"]

\* KvsEngine::set.
Set(t, k, v) ==
    /\ CanWrite(t)
    /\ Room
    /\ Handled(t, set(StoreOf(t), disk, k, v))
    /\ Called(t, Call(t, "set", k, v,
                      IF set(StoreOf(t), disk, k, v).compact THEN Pending ELSE Ok))
    /\ shadow' = [shadow EXCEPT ![k] = OkSome(v)]
    /\ setter' = [setter EXCEPT ![k] = t]
    /\ ops' = Counted
    /\ ref' = RefSet(k, v)
    /\ UNCHANGED handle
    /\ UNCHANGED serverVars

\* KvsEngine::remove.
Remove(t, k) ==
    /\ CanWrite(t)
    /\ Room
    /\ Handled(t, remove(StoreOf(t), disk, k))
    /\ Called(t, Call(t, "remove", k, <<>>,
                      IF remove(StoreOf(t), disk, k).compact THEN Pending
                      ELSE remove(StoreOf(t), disk, k).res))
    /\ IF remove(StoreOf(t), disk, k).res = Ok
       THEN /\ shadow' = [shadow EXCEPT ![k] = OkNone]
            /\ setter' = [setter EXCEPT ![k] = t]
            /\ ops' = Counted
            /\ ref' = RefRemove(k)
       ELSE UNCHANGED <<shadow, setter, ops, ref>>
    /\ UNCHANGED handle
    /\ UNCHANGED serverVars

\* KvsEngine::get up to the seek of value_at_pos: the read lock is taken, the
\* index is looked up and log_file is positioned on the entry's pos.
Get(t, k) ==
    /\ CanRead(t)
    /\ IF k \in DOMAIN StoreOf(t).index
       THEN /\ heap' = [heap EXCEPT ![handle[t]].log_file.off = StoreOf(t).index[k].pos,
                                    ![handle[t]].readers = @ \cup {t}]
            /\ pc' = [pc EXCEPT ![t] = "get_read"]
            /\ Called(t, Call(t, "get", k, <<>>, Pending))
       ELSE /\ Called(t, Call(t, "get", k, <<>>, OkNone))
            /\ UNCHANGED <<heap, pc>>
    /\ UNCHANGED <<disk, handle, shadow, setter, ops, ref>>
    /\ UNCHANGED serverVars

\* The rest of value_at_pos: one record is decoded at the offset log_file is
\* at, and the read lock is released.
GetRead(t) ==
    /\ pc[t] = "get_read"
    /\ heap' = [heap EXCEPT
                  ![handle[t]].log_file.off =
                      read_value(disk[StoreOf(t).log_file.num], StoreOf(t).log_file.off).next,
                  ![handle[t]].readers = @ \ {t}]
    /\ Returned(t, read_value(disk[StoreOf(t).log_file.num], StoreOf(t).log_file.off).res)
    /\ UNCHANGED <<disk, handle, shadow, setter, ops, ref>>
    /\ UNCHANGED serverVars

\* KvStore::compact called by the user (the single-threaded store exposes it).
Compact(t) ==
    /\ CanWrite(t)
    /\ StoreOf(t).monotonic < MaxMonotonic
    /\ heap' = [heap EXCEPT ![handle[t]].writer = t]
    /\ pc' = [pc EXCEPT ![t] = "compact"]
    /\ Called(t, Call(t, "compact", <<>>, <<>>, Pending))
    /\ UNCHANGED <<disk, handle, shadow, setter, ops, ref>>
    /\ UNCHANGED serverVars

\* compact: open_file(<monotonic + 1>.log).
CompactOpen(t) ==
    /\ pc[t] = "compact"
    /\ disk' = open_file(disk, StoreOf(t).monotonic + 1)
    /\ loc' = [loc EXCEPT ![t].new_log = [num |-> StoreOf(t).monotonic + 1, off |-> 0],
                          ![t].todo = DOMAIN StoreOf(t).index]
    /\ pc' = [pc EXCEPT ![t] = "compact_loop"]
    /\ UNCHANGED <<heap, handle, ret, shadow, setter, ops, ref>>
    /\ UNCHANGED serverVars

\* What one iteration of the loop of compact leaves: r is [store, disk,
\* new_log, res]; an error returns from compact and from the handler.
Rewritten(t, k, r) ==
    /\ disk' = r.disk
    /\ IF r.res = Ok
       THEN /\ heap' = [heap EXCEPT ![handle[t]] = r.store]
            /\ loc' = [loc EXCEPT ![t].new_log = r.new_log, ![t].todo = @ \ {k}]
            /\ UNCHANGED <<pc, ret>>
       ELSE /\ heap' = [heap EXCEPT ![handle[t]] = [r.store EXCEPT !.writer = 0]]
            /\ Returned(t, r.res)

\* compact: one iteration of the loop over the index, in the order the HashMap
\* yields its entries.
CompactEntry(t, k) ==
    /\ pc[t] = "compact_loop"
    /\ k \in loc[t].todo
    /\ Rewritten(t, k, compact_entry(StoreOf(t), disk, loc[t].new_log, k))
    /\ UNCHANGED <<handle, shadow, setter, ops, ref>>
    /\ UNCHANGED serverVars

\* compact: remove_file(<monotonic>.log), after the loop.
CompactRemove(t) ==
    /\ pc[t] = "compact_loop"
    /\ loc[t].todo = {}
    /\ disk' = remove_file(disk, StoreOf(t).monotonic)
    /\ pc' = [pc EXCEPT ![t] = "compact_swap"]
    /\ UNCHANGED <<heap, handle, loc, ret, shadow, setter, ops, ref>>
    /\ UNCHANGED serverVars

\* compact: log_file = new_log, compactions = 0, monotonic += 1; the handler
\* returns Ok and the write lock is released.
CompactSwap(t) ==
    /\ pc[t] = "compact_swap"
    /\ heap' = [heap EXCEPT ![handle[t]] =
                   [compact_swap(StoreOf(t), loc[t].new_log) EXCEPT !.writer = 0]]
    /\ Returned(t, Ok)
    /\ UNCHANGED <<disk, handle, shadow, setter, ops, ref>>
    /\ UNCHANGED serverVars

\* The steps of a thread on the shared store of core/src/store.rs.
CoreStep(t) ==
    \/ Open(t)
    \/ Close(t)
    \/ \E k \in Keys, v \in Values : Set(t, k, v)
    \/ \E k \in Keys : Remove(t, k)
    \/ \E k \in Keys : Get(t, k)
    \/ GetRead(t)
    \/ CompactOpen(t)
    \/ \E k \in Keys : CompactEntry(t, k)
    \/ CompactRemove(t)
    \/ CompactSwap(t)

\* One thread, one handle, compact callable.
Next == CoreStep(1) \/ Compact(1)
Spec == Init /\ [][Next]_vars

\* The same run beside the reference store.
SpecRef == InitRef /\ [][Next]_vars

\* ------------------------------------------------------------------ crashes

\* The process dies: every handle and the store in memory are gone, the
\* directory stays as it is.
Crash ==
    /\ DOMAIN heap # {}
    /\ heap' = <<>>
    /\ handle' = [t \in Threads |-> 0]
    /\ pc' = [t \in Threads |-> "idle"]
    /\ loc' = [t \in Threads |-> NoLoc]
    /\ ret' = Call(0, "crash", <<>>, <<>>, Ok)
    /\ ref' = RefClose
    /\ UNCHANGED <<disk, shadow, setter, ops>>
    /\ UNCHANGED serverVars

\* The process dies in the loop of compact while the record of k is written to
\* the new log: the first n bytes of the record are in the file.
CrashInCompactEntry(t, k, n) ==
    /\ pc[t] = "compact_loop"
    /\ k \in loc[t].todo
    /\ compact_entry(StoreOf(t), disk, loc[t].new_log, k).res = Ok
    /\ n < Len(compact_entry(StoreOf(t), disk, loc[t].new_log, k).disk[loc[t].new_log.num])
           - Len(disk[loc[t].new_log.num])
    /\ disk' = [disk EXCEPT ![loc[t].new_log.num] =
                   SubSeq(compact_entry(StoreOf(t), disk, loc[t].new_log, k).disk[loc[t].new_log.num],
                          1, Len(@) + n)]
    /\ heap' = <<>>
    /\ handle' = [u \in Threads |-> 0]
    /\ pc' = [u \in Threads |-> "idle"]
    /\ loc' = [u \in Threads |-> NoLoc]
    /\ ret' = Call(0, "crash", <<>>, <<>>, Ok)
    /\ ref' = RefClose
    /\ UNCHANGED <<shadow, setter, ops>>
    /\ UNCHANGED serverVars

\* Lengths at which the model cuts a record: inside the tag, after the tag,
\* inside the key, inside the value.
TornLens == {2, 4, 12, 21}

\* One thread on the shared store, the process dying at any step; MaxOps sets
\* and removes are made in all.
NextCrash ==
    \/ CoreStep(1)
    \/ Crash
    \/ \E k \in Keys, n \in TornLens : CrashInCompactEntry(1, k, n)
SpecCrash == InitBounded /\ [][NextCrash]_vars

\* ------------------------------------------------------------------ I/O failures

\* KvStore::set when the write to the file fails after n bytes of the record.
\* serialize_into is handed the BufWriter by value and writes the record into
\* its buffer (the records of the model, like any record below the 8 KiB of the
\* buffer, fit into it), which succeeds; the bytes go to the file when the
\* BufWriter is dropped at the end of serialize_into, and that flush discards
\* the error of the write. set goes on as after a write that succeeded.
set_write_fails(s, d, k, v, n) ==
    LET f == s.log_file.num
        pos == Len(d[f])
        d2 == write_all(d, f, SubSeq(serialize(OpSet(k, v)), 1, n))
        displaced == k \in DOMAIN s.index
        s2 == [s EXCEPT !.log_file.off = Len(d2[f]),
                        !.index = Insert(s.index, k, LogPtr(s.monotonic, pos)),
                        !.compactions = IF displaced THEN Add1U16(@) ELSE @]
    IN [store |-> s2, disk |-> d2, compact |-> displaced /\ compact_maybe(s2)]

\* Bytes of a record that reach the file when the write fails: none, or the
\* tag and the length of the key.
FailLens == {0, 12}

\* KvsEngine::set with a write that fails.
SetWriteFails(t, k, v, n) ==
    /\ CanWrite(t)
    /\ Room
    /\ Handled(t, set_write_fails(StoreOf(t), disk, k, v, n))
    /\ Called(t, Call(t, "set", k, v,
                      IF set_write_fails(StoreOf(t), disk, k, v, n).compact
                      THEN Pending ELSE Ok))
    /\ shadow' = [shadow EXCEPT ![k] = OkSome(v)]
    /\ setter' = [setter EXCEPT ![k] = t]
    /\ ops' = Counted
    /\ UNCHANGED <<handle, ref>>
    /\ UNCHANGED serverVars

\* compact returns the error of an I/O call that fails: open_file of the new
\* log, the seek on it in an iteration of the loop, or remove_file of the old
\* log after the loop. Nothing is undone, the handler returns the error and the
\* write lock is released.
CompactFails(t) ==
    /\ pc[t] \in {"compact", "compact_loop"}
    /\ heap' = [heap EXCEPT ![handle[t]].writer = 0]
    /\ Returned(t, ErrIo("Other"))
    /\ UNCHANGED <<disk, handle, shadow, setter, ops, ref>>
    /\ UNCHANGED serverVars

\* One thread on the shared store, compactions failing; MaxOps sets and removes
\* are made in all.
NextCompactFail == CoreStep(1) \/ CompactFails(1)
SpecCompactFail == InitBounded /\ [][NextCompactFail]_vars

\* The same with writes of set failing as well.
NextFail ==
    \/ NextCompactFail
    \/ \E k \in Keys, v \in Values, n \in FailLens : SetWriteFails(1, k, v, n)
SpecFail == InitBounded /\ [][NextFail]_vars

\* ------------------------------------------------------------------ replay of a long log

\* A panic: the call unwinds and returns nothing.
Panicked == [tag |-> "Panic"]

\* The log of this specification is a unit of records written LogUnits times
\* over, and it is kept as the unit and the number of times: set("a","1") again
\* and again, or set("a","1") and remove("a") in turn, on a store whose
\* compactions fail, every call appending its record before compact is tried.
LogUnits == U16_MOD + 1
Units == {serialize(OpSet(<<97>>, <<49>>)),
          serialize(OpSet(<<97>>, <<49>>)) \o serialize(OpRm(<<97>>))}

\* KvStore::open at the head of the replay loop of 1.log, the only file: the
\* locals of open are unit and left (what is left of the file: left units, the
\* first of them read up to off), pos (the offset in the file), acc (index and
\* compactions); stale counts the records replayed that displaced an index
\* entry or are an Rm.
InitReplay ==
    \E u \in Units :
       /\ disk = (1 :> u)
       /\ heap = <<>>
       /\ handle = [t \in Threads |-> 0]
       /\ pc = [t \in Threads |-> IF t = 1 THEN "replay" ELSE "idle"]
       /\ loc = [t \in Threads |->
                   IF t = 1
                   THEN [call |-> Call(1, "open", <<>>, <<>>, Pending),
                         new_log |-> NoLoc.new_log, todo |-> {},
                         unit |-> u, left |-> LogUnits, off |-> 0, pos |-> 0,
                         acc |-> [index |-> <<>>, compactions |-> 0],
                         stale |-> 0]
                   ELSE NoLoc]
       /\ ret = Call(1, "open", <<>>, <<>>, Pending)
       /\ shadow = [k \in Keys |-> OkNone]
       /\ setter = [k \in Keys |-> 0]
       /\ ops = -1
       /\ ref = [on |-> FALSE, store |-> NoStore, disk |-> <<>>]
       /\ dir = {}
       /\ InitServer

\* The record the replay loop of thread t decodes next.
NextRecord(t) == deserialize_from(loc[t].unit, loc[t].off)

\* The record the replay loop of thread t decodes next adds one to compactions.
NextCounts(t) ==
    \/ NextRecord(t).op.tag = "Rm"
    \/ NextRecord(t).op.key \in DOMAIN loc[t].acc.index

\* One iteration of the replay loop: a record is decoded and applied. In a
\* build without overflow checks compactions += 1 wraps around.
ReplayStep(t) ==
    /\ pc[t] = "replay"
    /\ loc[t].left > 0
    /\ loc' = [loc EXCEPT
                 ![t].acc = ReplayOp(loc[t].acc, NextRecord(t).op, 1, loc[t].pos),
                 ![t].pos = @ + NextRecord(t).next - loc[t].off,
                 ![t].off = IF NextRecord(t).next = Len(loc[t].unit)
                            THEN 0 ELSE NextRecord(t).next,
                 ![t].left = IF NextRecord(t).next = Len(loc[t].unit) THEN @ - 1 ELSE @,
                 ![t].stale = IF NextCounts(t) THEN @ + 1 ELSE @]
    /\ UNCHANGED <<disk, heap, handle, pc, ret, shadow, setter, ops, ref>>
    /\ UNCHANGED serverVars

\* In a build with overflow checks compactions += 1 on 65535 panics: open
\* returns nothing.
ReplayPanics(t) ==
    /\ pc[t] = "replay"
    /\ loc[t].left > 0
    /\ NextCounts(t)
    /\ loc[t].acc.compactions = U16_MOD - 1
    /\ pc' = [pc EXCEPT ![t] = "idle"]
    /\ ret' = Call(t, "open", <<>>, <<>>, Panicked)
    /\ UNCHANGED <<disk, heap, handle, loc, shadow, setter, ops, ref>>
    /\ UNCHANGED serverVars

\* The end of the file: open builds the store and returns.
ReplayDone(t) ==
    /\ pc[t] = "replay"
    /\ loc[t].left = 0
    /\ heap' = (1 :> [log_file |-> [num |-> 1, off |-> 0],
                      index |-> loc[t].acc.index,
                      compactions |-> loc[t].acc.compactions,
                      monotonic |-> 1,
                      writer |-> 0,
                      readers |-> {}])
    /\ handle' = [handle EXCEPT ![t] = 1]
    /\ pc' = [pc EXCEPT ![t] = "idle"]
    /\ ret' = Call(t, "open", <<>>, <<>>, Ok)
    /\ UNCHANGED <<disk, loc, shadow, setter, ops, ref>>
    /\ UNCHANGED serverVars

\* open on a log of LogUnits units, built with or without overflow checks.
NextReplay == ReplayStep(1) \/ ReplayPanics(1) \/ ReplayDone(1)
SpecReplay == InitReplay /\ [][NextReplay]_vars

\* ------------------------------------------------------------------ engine selection

\* SledEngine::open by a process that has no engine open (main opens one).
SledOpen(t) ==
    /\ ~tree.open
    /\ DOMAIN heap = {}
    /\ pc[t] = "idle"
    /\ tree' = sled_open(tree, read_dir(disk, dir)).db
    /\ dir' = dir \cup sled_open(tree, read_dir(disk, dir)).created
    /\ ret' = Call(t, "sled_open", <<>>, <<>>, sled_open(tree, read_dir(disk, dir)).res)
    /\ UNCHANGED <<disk, heap, handle, pc, loc, shadow, setter, ops, ref>>
    /\ UNCHANGED <<queue, worker, pool, conn>>

\* The SledEngine is dropped; the database stays on disk.
SledClose(t) ==
    /\ tree.open
    /\ pool.state = "none"
    /\ tree' = [tree EXCEPT !.open = FALSE]
    /\ ret' = Call(t, "sled_close", <<>>, <<>>, Ok)
    /\ UNCHANGED <<disk, heap, handle, pc, loc, shadow, setter, ops, ref>>
    /\ UNCHANGED <<dir, queue, worker, pool, conn>>

\* SledEngine::set called directly.
SledSet(t, k, v) ==
    /\ tree.open
    /\ tree' = sled_set(tree, k, v).db
    /\ ret' = Call(t, "sled_set", k, v, sled_set(tree, k, v).res)
    /\ UNCHANGED <<disk, heap, handle, pc, loc, shadow, setter, ops, ref>>
    /\ UNCHANGED <<dir, queue, worker, pool, conn>>

\* SledEngine::get called directly.
SledGet(t, k) ==
    /\ tree.open
    /\ ret' = Call(t, "sled_get", k, <<>>, sled_get(tree, k))
    /\ UNCHANGED <<disk, heap, handle, pc, loc, shadow, setter, ops, ref>>
    /\ UNCHANGED serverVars

\* SledEngine::remove called directly.
SledRemove(t, k) ==
    /\ tree.open
    /\ tree' = sled_remove(tree, k).db
    /\ ret' = Call(t, "sled_remove", k, <<>>, sled_remove(tree, k).res)
    /\ UNCHANGED <<disk, heap, handle, pc, loc, shadow, setter, ops, ref>>
    /\ UNCHANGED <<dir, queue, worker, pool, conn>>

\* The calls of a user of the tree-backed engine.
TreeStep(t) ==
    \/ SledOpen(t)
    \/ SledClose(t)
    \/ \E k \in Keys, v \in Values : SledSet(t, k, v)
    \/ \E k \in Keys : SledGet(t, k)
    \/ \E k \in Keys : SledRemove(t, k)

\* The tree-backed engine alone, called by two threads.
NextTree == \E t \in Threads : TreeStep(t)
SpecTree == Init /\ [][NextTree]_vars

\* One directory, opened by a process with the one engine or with the other;
\* MaxOps sets and removes are made on the log engine.
NextEngines == CoreStep(1) \/ TreeStep(1)
SpecEngines == InitBounded /\ [][NextEngines]_vars

\* ------------------------------------------------------------------ threads

\* Two threads, each with a clone of the handle, their calls interleaved as the
\* lock allows; MaxOps sets and removes are made in all.
NextThreads ==
    \E t \in Threads :
       \/ CoreStep(t)
       \/ \E u \in Threads : Clone(t, u)
SpecThreads == InitBounded /\ [][NextThreads]_vars

\* get called when no other thread is inside a call.
SerialGet(t, k) ==
    /\ \A u \in Threads \ {t} : pc[u] = "idle"
    /\ Get(t, k)

\* Two threads, each with a clone of the handle, a call starting when the call
\* before it has returned; MaxOps sets and removes are made in all.
NextClones ==
    \E t \in Threads :
       \/ Open(t)
       \/ Close(t)
       \/ \E u \in Threads : Clone(t, u)
       \/ \E k \in Keys, v \in Values : Set(t, k, v)
       \/ \E k \in Keys : Remove(t, k)
       \/ \E k \in Keys : SerialGet(t, k)
       \/ GetRead(t)
       \/ CompactOpen(t)
       \/ \E k \in Keys : CompactEntry(t, k)
       \/ CompactRemove(t)
       \/ CompactSwap(t)
SpecClones == InitBounded /\ [][NextClones]_vars

\* ------------------------------------------------------------------ properties

\* The records of file f from offset pos on, a record [tag |-> "Bad"] standing
\* for bytes that do not decode.
RECURSIVE log_records(_, _)
log_records(f, pos) ==
    IF pos >= Len(f) THEN <<>>
    ELSE IF ~deserialize_from(f, pos).ok THEN <<[tag |-> "Bad"]>>
    ELSE <<deserialize_from(f, pos).op>> \o log_records(f, deserialize_from(f, pos).next)

\* C1: on a store opened on an empty directory and used by one caller, get(k)
\* returns the value of the latest set(k, v) that no remove(k) followed, and
\* None when k was never set or was removed since: the store answers as the
\* map of the calls made so far does, whatever compactions ran in between.
GetReturnsLatest ==
    /\ (1 \in DOMAIN heap /\ heap[1].writer = 0) => View(heap[1], disk) = shadow
    /\ (ret.op = "get" /\ ret.res # Pending) => ret.res = shadow[ret.key]

\* A get of "a" returned its second value, after a compaction and more stale
\* records, "b" having been set and removed.
GetReturnsLatest_witness ==
    /\ ret = Call(1, "get", <<97>>, <<>>, OkSome(<<50, 50>>))
    /\ heap[1].monotonic > 1 /\ heap[1].compactions > 0
    /\ shadow[<<98>>] = OkNone /\ setter[<<98>>] = 1

\* C2: remove(k) returns KeyNotFound exactly when k is not in the index, and
\* then appends nothing and leaves the index, the stale count and monotonic as
\* they were; otherwise it succeeds and k is in the index no longer.
RemoveContract ==
    [][\A t \in Threads :
          /\ \A k \in Keys :
                Remove(t, k) =>
                   IF k \notin DOMAIN StoreOf(t).index
                   THEN /\ ret'.res = ErrKeyNotFound(k)
                        /\ disk' = disk
                        /\ heap'[handle[t]].index = StoreOf(t).index
                        /\ heap'[handle[t]].compactions = StoreOf(t).compactions
                        /\ heap'[handle[t]].monotonic = StoreOf(t).monotonic
                   ELSE /\ ret'.res \in {Ok, Pending}
                        /\ k \notin DOMAIN heap'[handle[t]].index
          /\ (loc[t].call.op = "remove" /\ loc'[t].call.op # "remove") =>
                /\ ret' = [loc[t].call EXCEPT !.res = Ok]
                /\ loc[t].call.key \notin DOMAIN heap'[handle[t]].index]_vars

\* remove("a") returned KeyNotFound for a key that had been set and removed,
\* another key being in the index.
RemoveContract_witness ==
    /\ ret = Call(1, "remove", <<97>>, <<>>, ErrKeyNotFound(<<97>>))
    /\ setter[<<97>>] = 1
    /\ DOMAIN heap[1].index = {<<98>>}
    /\ Len(disk[heap[1].monotonic]) > 0

\* C3: whatever sets and removes (and the compactions they cause) a store at a
\* path took, closing it and opening the path again gives a store whose get
\* answers for every key as the store answered before the close.
ReopenIdempotent ==
    (1 \in DOMAIN heap /\ \A t \in Threads : pc[t] = "idle") =>
        View(open(disk).store, open(disk).disk) = View(heap[1], disk)

\* A store just opened on a directory a compaction and later stale records
\* were written to, with a live key and a removed one.
ReopenIdempotent_witness ==
    /\ ret.op = "open" /\ 1 \in DOMAIN heap
    /\ heap[1].monotonic > 1 /\ heap[1].compactions > 0
    /\ heap[1].index # <<>>
    /\ \E k \in Keys : shadow[k] = OkNone /\ setter[k] = 1

\* C4: compaction changes no answer: outside the loop of compact, and so
\* immediately before a compaction and immediately after it, get answers for
\* every key as it does on a store that took the same calls and never compacted.
CompactionPreservesState ==
    (1 \in DOMAIN heap /\ \A t \in Threads : pc[t] \notin {"compact_loop", "compact_swap"}) =>
        View(heap[1], disk) = View(ref.store, ref.disk)

\* A remove has just ended in a compaction that left a live key, the reference
\* store holding the stale records still.
CompactionPreservesState_witness ==
    /\ ref.on /\ 1 \in DOMAIN heap
    /\ ret.op = "remove" /\ ret.res = Ok
    /\ heap[1].compactions = 0 /\ heap[1].monotonic > 1
    /\ heap[1].index # <<>>
    /\ ref.store.compactions >= COMPACTION_LIMIT

\* The active log of store s in directory d holds the records rs, which are one
\* Set per key of the index, with the key's value, and the directory holds no
\* other log.
ExactlyLive(s, d, rs) ==
    /\ DOMAIN d = {s.monotonic}
    /\ Len(rs) = Cardinality(DOMAIN s.index)
    /\ \A i \in 1..Len(rs) :
          /\ rs[i].tag = "Set"
          /\ rs[i].key \in DOMAIN s.index
          /\ OkSome(rs[i].value) = get(s, d, rs[i].key).res
    /\ \A k \in DOMAIN s.index : \E i \in 1..Len(rs) : rs[i].key = k

\* C9: when a compaction has succeeded the directory holds one log, and its
\* records are exactly one Set per live key: no Rm record, no superseded Set.
CompactedLogIsLive ==
    [][\A t \in Threads :
          CompactSwap(t) =>
             ExactlyLive(heap'[handle[t]], disk',
                         log_records(disk'[heap'[handle[t]].monotonic], 0))]_vars

\* A remove of "a" has just ended in a compaction that left "b" alone.
CompactedLogIsLive_witness ==
    /\ ret = Call(1, "remove", <<97>>, <<>>, Ok)
    /\ 1 \in DOMAIN heap
    /\ heap[1].compactions = 0 /\ heap[1].monotonic > 1
    /\ DOMAIN heap[1].index = {<<98>>}

\* C5: set, get and remove are atomic with respect to one another across
\* threads and every result is the result of some sequential order of the calls
\* that respects real time. A write holds the lock alone, so a get that returns
\* can only be ordered after the writes made before it took the lock and before
\* the writes made after it returns: it must return what the map holds then.
Linearizable ==
    [][\A t \in Threads :
          GetRead(t) => ret'.res = shadow[loc[t].call.key]]_vars

\* C6: the clones of a handle are handles on one store: whatever a set or a
\* remove through one clone did is what a get called afterwards through another
\* clone returns (the calls one after the other, each returning before the next
\* starts).
ClonesShareStore ==
    [][\A t \in Threads :
          /\ GetRead(t) =>
                (setter[loc[t].call.key] \notin {0, t} => ret'.res = shadow[loc[t].call.key])
          /\ \A k \in Keys :
                (SerialGet(t, k) /\ k \notin DOMAIN StoreOf(t).index) =>
                   (setter[k] \notin {0, t} => shadow[k] = OkNone)]_vars

\* Thread 2 got through its clone the value thread 1 had set through its own,
\* after a compaction run by thread 1.
ClonesShareStore_witness ==
    /\ ret = Call(2, "get", <<97>>, <<>>, OkSome(<<50, 50>>))
    /\ setter[<<97>>] = 1
    /\ handle[1] # 0 /\ handle[2] = handle[1]
    /\ StoreOf(2).monotonic > 1

\* C7: open on a directory holding the two logs N and N+1 that a process dying
\* inside compact left succeeds, sets monotonic to the greatest N, and get then
\* returns for every key the value written last.
CrashRecovery ==
    (/\ 1 \in DOMAIN heap
     /\ ret.op = "open"
     /\ DOMAIN disk = {heap[1].monotonic - 1, heap[1].monotonic}) =>
        /\ heap[1].monotonic = MaxOf(DOMAIN disk)
        /\ View(heap[1], disk) = shadow

\* C8: at most two logs exist at any time and exactly one when no compaction
\* runs; during a compaction they are <monotonic>.log and <monotonic+1>.log,
\* and the older one is deleted before monotonic advances.
LogFileCount ==
    1 \in DOMAIN heap =>
        /\ Cardinality(DOMAIN disk) <= 2
        /\ IF \E t \in Threads : pc[t] = "compact_loop"
           THEN DOMAIN disk = {heap[1].monotonic, heap[1].monotonic + 1}
           ELSE IF \E t \in Threads : pc[t] = "compact_swap"
           THEN DOMAIN disk = {heap[1].monotonic + 1}
           ELSE DOMAIN disk = {heap[1].monotonic}

\* C10: when a set or a remove has returned with success the stale count is
\* below COMPACTION_LIMIT, whether or not the set displaced an entry and also on
\* a store just opened on a populated directory.
AutoCompactionBound ==
    (/\ 1 \in DOMAIN heap
     /\ ret.op \in {"set", "remove"}
     /\ ret.res = Ok) =>
        heap[1].compactions < COMPACTION_LIMIT

\* The error the engine guard is to fail with (no such variant exists in
\* core/src/error.rs).
ErrEngineMismatch == [tag |-> "Err", kind |-> "EngineMismatch"]

\* The entries hold a <digits>.log file.
HasLogFile(entries) == log_entries(entries) # {}

\* The entries hold what the tree-backed engine writes.
HasTreeMarker(entries) == entries \cap SledFiles # {}

\* C11: opening the tree-backed engine on a directory that holds a
\* <digits>.log file fails with EngineMismatch, and the backend is neither
\* opened nor modified.
TreeGuard ==
    [][\A t \in Threads :
          (SledOpen(t) /\ HasLogFile(read_dir(disk, dir))) =>
             /\ ret'.res = ErrEngineMismatch
             /\ tree' = tree
             /\ dir' = dir]_vars

\* C12: opening the log engine on a directory that holds a marker of the
\* tree-backed engine fails with EngineMismatch and creates no log file.
KvsGuard ==
    [][\A t \in Threads :
          (Open(t) /\ HasTreeMarker(read_dir(disk, dir))) =>
             /\ ret'.res = ErrEngineMismatch
             /\ disk' = disk]_vars

\* C19: remove(k) of the tree-backed engine on a key the backend does not hold
\* returns KeyNotFound{k}, no other error, and leaves the backend as it was;
\* on a key the backend holds it returns Ok, and a get(k) called afterwards
\* returns None.
TreeRemoveContract ==
    [][\A t \in Threads, k \in Keys :
          /\ SledRemove(t, k) =>
                IF k \in DOMAIN tree.map
                THEN ret'.res = Ok /\ sled_get(tree', k) = OkNone
                ELSE ret'.res = ErrKeyNotFound(k) /\ tree' = tree /\ dir' = dir
          /\ (SledGet(t, k) /\ ret = Call(ret.thread, "sled_remove", k, <<>>, Ok)) =>
                ret'.res = OkNone]_vars

\* A remove of an absent key has answered while the backend holds another key.
TreeRemoveContract_witness ==
    /\ ret.op = "sled_remove"
    /\ ret.res = ErrKeyNotFound(ret.key)
    /\ tree.map # <<>>

\* C20: get calls that overlap do not interfere: whatever the interleaving of
\* their seeks and reads, the read of get(k) is made at index[k].pos, decodes
\* the Set record of k there and returns its value, never the value of another
\* key and never an error.
ReadersDoNotInterfere ==
    [][\A t \in Threads :
          GetRead(t) =>
             /\ StoreOf(t).log_file.off = StoreOf(t).index[loc[t].call.key].pos
             /\ ret'.res.tag = "Ok"
             /\ ret'.res = value_at_pos(disk[StoreOf(t).log_file.num],
                                        StoreOf(t).index[loc[t].call.key].pos).res]_vars

\* ------------------------------------------------------------------ file names

Ext(stem) == stem \o DotLog
File(name) == [name |-> name, is_dir |-> FALSE]
Directory(name) == [name |-> name, is_dir |-> TRUE]

\* The names of the tests of parse_file_num.
ZeroLog == Ext(<<"0">>)
BigLog == Ext(<<"1", "0", "0", "1", "0", "2">>)
KvsLog == Ext(<<"k", "v", "s">>)

\* Entries a data directory may hold when sorted_file_nums reads it.
NameEntries ==
    {File(ZeroLog), File(BigLog), File(KvsLog),
     File(Ext(<<"1", "2", "a">>)),
     File(Ext(<<"0", "1", "2">>)),
     File(Ext(<<"1", "x", "2">>)),
     File(<<"3", ".", "l", "o", "g", "s">>),
     File(<<"5">>),
     File(DotLog),
     Directory(Ext(<<"4">>))}

OkVec(v) == [tag |-> "Ok", value |-> v]

\* A directory with any of the entries, no store opened on it.
InitNames ==
    /\ disk = <<>>
    /\ heap = <<>>
    /\ handle = [t \in Threads |-> 0]
    /\ pc = [t \in Threads |-> "idle"]
    /\ loc = [t \in Threads |-> NoLoc]
    /\ ret = NoCall
    /\ shadow = [k \in Keys |-> OkNone]
    /\ setter = [k \in Keys |-> 0]
    /\ ops = -1
    /\ ref = [on |-> FALSE, store |-> NoStore, disk |-> <<>>]
    /\ dir \in SUBSET NameEntries
    /\ InitServer

\* SharedKvStore::parse_file_num called on the name of an entry.
ParseFileNum(e) ==
    /\ e \in read_dir(disk, dir)
    /\ ret' = Call(0, "parse_file_num", e.name, <<>>, parse_file_num(e.name))
    /\ UNCHANGED <<disk, heap, handle, pc, loc, shadow, setter, ops, ref>>
    /\ UNCHANGED serverVars

\* SharedKvStore::sorted_file_nums called on the directory.
SortedFileNums ==
    /\ ret' = Call(0, "sorted_file_nums", <<>>, <<>>,
                   OkVec(log_file_nums(read_dir(disk, dir))))
    /\ UNCHANGED <<disk, heap, handle, pc, loc, shadow, setter, ops, ref>>
    /\ UNCHANGED serverVars

NextNames ==
    \/ \E e \in NameEntries : ParseFileNum(e)
    \/ SortedFileNums
SpecNames == InitNames /\ [][NextNames]_vars

\* The length of the longest leading run of ASCII decimal digits of name.
LeadingRun(name) ==
    CHOOSE i \in 0..Len(name) :
       /\ \A j \in 1..i : \E d \in 1..10 : DigitChars[d] = name[j]
       /\ i < Len(name) => \A d \in 1..10 : DigitChars[d] # name[i + 1]

RECURSIVE Pow10(_)
Pow10(n) == IF n = 0 THEN 1 ELSE 10 * Pow10(n - 1)

\* The decimal value of the first n characters of name, all of them digits.
RECURSIVE DecimalValue(_, _)
DecimalValue(name, n) ==
    IF n = 0 THEN 0
    ELSE (CHOOSE v \in 0..9 : DigitChars[v + 1] = name[1]) * Pow10(n - 1)
         + DecimalValue(Tail(name), n - 1)

\* The entries recovery reads: not a directory, the name ending in ".log" and
\* starting with a digit.
Numbered(entries) ==
    {e \in entries : /\ ~e.is_dir
                     /\ Len(e.name) >= 4
                     /\ \A i \in 1..4 : e.name[Len(e.name) - 4 + i] = DotLog[i]
                     /\ LeadingRun(e.name) > 0}

\* C18: parse_file_num returns the value of the longest leading run of ASCII
\* decimal digits of the file name and None for a name with no leading digit
\* ("0.log" gives 0, "100102.log" gives 100102, "kvs.log" is rejected);
\* sorted_file_nums yields the numbers of the entries that are not directories
\* and whose name ends in ".log", parsed this way, in ascending order.
FileNameParsing ==
    /\ parse_file_num(ZeroLog) = Some(0)
    /\ parse_file_num(BigLog) = Some(100102)
    /\ parse_file_num(KvsLog) = None
    /\ ret.op = "parse_file_num" =>
          ret.res = IF LeadingRun(ret.key) = 0 THEN None
                    ELSE Some(DecimalValue(ret.key, LeadingRun(ret.key)))
    /\ ret.op = "sorted_file_nums" =>
          /\ ret.res.tag = "Ok"
          /\ \A i, j \in 1..Len(ret.res.value) : i < j => ret.res.value[i] <= ret.res.value[j]
          /\ Len(ret.res.value) = Cardinality(Numbered(dir))
          /\ \A e \in Numbered(dir) :
                Cardinality({i \in 1..Len(ret.res.value) :
                                ret.res.value[i] = DecimalValue(e.name, LeadingRun(e.name))})
                = Cardinality({f \in Numbered(dir) :
                                  DecimalValue(f.name, LeadingRun(f.name))
                                  = DecimalValue(e.name, LeadingRun(e.name))})

\* A directory with log files, a name with a digit after a letter, a
\* directory named as a log and a log with no number has been enumerated.
FileNameParsing_witness ==
    /\ ret.op = "sorted_file_nums"
    /\ Len(ret.res.value) >= 4
    /\ {File(KvsLog), Directory(Ext(<<"4">>)), File(Ext(<<"1", "x", "2">>))} \subseteq dir

\* ------------------------------------------------------------------ pool
\* SharedQueueThreadPool. A job is numbered in the order of the spawns; its
\* kind says what the closure does when it is run.

\* Jobs spawned on one pool.
MaxJobs == 3

Job(id, kind, c) == [tag |-> "Job", id |-> id, kind |-> kind, conn |-> c]
Shutdown == [tag |-> "Shutdown"]

\* SegQueue::push
push(q, msg) == Append(q, msg)

\* A pop that takes the message pushed last.
pop_back(q) == [msg |-> q[Len(q)], queue |-> SubSeq(q, 1, Len(q) - 1)]

\* SegQueue::pop on a queue that is not empty: the message pushed first.
pop(q) == [msg |-> Head(q), queue |-> Tail(q)]

\* A drop that pushes one Shutdown less than there are handles.
shutdowns_short(handles) == Len(handles) - 1

\* The Shutdown messages drop pushes: 0..self.handles.len().
shutdowns(handles) == Len(handles)

\* ThreadPool::new(n): n threads are started, each in the loop of handle_jobs.
NewPool(n) ==
    /\ pool.state = "none"
    /\ pool' = [NoPool EXCEPT !.state = "live", !.size = n,
                              !.handles = [i \in 1..n |-> i]]
    /\ worker' = [w \in Workers |->
                     IF w <= n THEN [NoWorker EXCEPT !.state = "loop"] ELSE NoWorker]
    /\ queue' = <<>>
    /\ UNCHANGED storeVars
    /\ UNCHANGED <<dir, tree, conn>>

\* ThreadPool::spawn of a closure of the given kind.
Spawn(kind) ==
    /\ pool.state = "live"
    /\ pool.spawned < MaxJobs
    /\ queue' = push(queue, Job(pool.spawned + 1, kind, 0))
    /\ pool' = [pool EXCEPT !.spawned = @ + 1]
    /\ UNCHANGED storeVars
    /\ UNCHANGED <<dir, tree, worker, conn>>

\* handle_jobs, one turn of the loop with a message in the queue: a Job is
\* taken to be run, a Shutdown breaks the loop and the thread ends. (On an
\* empty queue the turn changes nothing.)
Dequeue(w) ==
    /\ worker[w].state = "loop"
    /\ queue # <<>>
    /\ queue' = pop(queue).queue
    /\ IF pop(queue).msg.tag = "Job"
       THEN /\ worker' = [worker EXCEPT ![w].state = "run", ![w].job = pop(queue).msg]
            /\ pool' = [pool EXCEPT !.started = Append(@, pop(queue).msg.id)]
       ELSE /\ worker' = [worker EXCEPT ![w].state = "exited", ![w].shutdowns = @ + 1]
            /\ UNCHANGED pool
    /\ UNCHANGED storeVars
    /\ UNCHANGED <<dir, tree, conn>>

\* f() returns: the worker is back at the top of its loop.
Finish(w) ==
    /\ worker[w].state = "run"
    /\ worker[w].job.kind = "task"
    /\ worker' = [worker EXCEPT ![w].state = "loop", ![w].job = NoJob]
    /\ pool' = [pool EXCEPT !.done = @ \cup {worker[w].job.id}]
    /\ UNCHANGED storeVars
    /\ UNCHANGED <<dir, tree, queue, conn>>

\* f() panics: handle_jobs calls it with nothing that catches the unwinding,
\* which goes through the loop and ends the thread.
Panic(w) ==
    /\ worker[w].state = "run"
    /\ worker[w].job.kind = "panic"
    /\ worker' = [worker EXCEPT ![w].state = "dead", ![w].job = NoJob]
    /\ UNCHANGED storeVars
    /\ UNCHANGED <<dir, tree, queue, pool, conn>>

\* The pool is dropped: drop starts.
DropStart ==
    /\ pool.state = "live"
    /\ pool' = [pool EXCEPT !.state = "dropping"]
    /\ UNCHANGED storeVars
    /\ UNCHANGED <<dir, tree, queue, worker, conn>>

\* drop, one turn of its first loop: a Shutdown is pushed.
DropPush ==
    /\ pool.state = "dropping"
    /\ pool.pushed < shutdowns(pool.handles)
    /\ queue' = push(queue, Shutdown)
    /\ pool' = [pool EXCEPT !.pushed = @ + 1]
    /\ UNCHANGED storeVars
    /\ UNCHANGED <<dir, tree, worker, conn>>

\* drop, one turn of its second loop: the handle pushed last is popped and
\* joined, which returns when its thread has ended; drop returns when no handle
\* is left.
DropJoin ==
    /\ pool.state = "dropping"
    /\ pool.pushed >= shutdowns(pool.handles)
    /\ pool.handles # <<>>
    /\ worker[pool.handles[Len(pool.handles)]].state \in {"exited", "dead"}
    /\ pool' = [pool EXCEPT !.handles = SubSeq(@, 1, Len(@) - 1),
                            !.state = IF Len(pool.handles) = 1 THEN "dropped" ELSE @]
    /\ UNCHANGED storeVars
    /\ UNCHANGED <<dir, tree, queue, worker, conn>>

\* The threads of a pool.
WorkerStep(w) == Dequeue(w) \/ Finish(w)
\* The thread that owns the pool; its closures return.
OwnerStep ==
    \/ \E n \in Workers : NewPool(n)
    \/ Spawn("task")
    \/ DropStart
    \/ DropPush
    \/ DropJoin

\* A pool, its owner and its threads; MaxJobs closures are spawned, all of
\* them returning.
NextPool == OwnerStep \/ \E w \in Workers : WorkerStep(w)
SpecPool == Init /\ [][NextPool]_vars

\* The same with the threads scheduled: a thread that can take a step takes one
\* in the end, a closure that runs returns in the end, and so do the steps of
\* drop once it has started.
SpecPoolFair ==
    /\ Init /\ [][NextPool]_vars
    /\ \A w \in Workers : WF_vars(WorkerStep(w))
    /\ WF_vars(DropPush) /\ WF_vars(DropJoin)

\* The same pool with closures that panic among those spawned.
NextPoolPanic ==
    \/ NextPool
    \/ Spawn("panic")
    \/ \E w \in Workers : Panic(w)
SpecPoolPanic == Init /\ [][NextPoolPanic]_vars

\* C15: a closure that panics does not end the thread that ran it: whatever the
\* number of closures that panicked, a pool of n threads that has not been
\* dropped has n threads in their loop or running a closure, so that what is
\* spawned afterwards is run.
WorkersSurvivePanic ==
    pool.state = "live" =>
       \A w \in 1..pool.size : worker[w].state \in {"loop", "run"}

\* What holds of a drop at every moment: no more Shutdown is pushed than the
\* pool has threads, a thread takes one Shutdown at most, every Shutdown pushed
\* is in the queue or was taken by one thread; and when drop has returned,
\* exactly n were pushed, each of the n threads has taken exactly one and
\* ended, and every closure spawned has been taken and has returned.
DropSafety ==
    /\ pool.pushed <= pool.size
    /\ \A w \in Workers : worker[w].shutdowns <= 1
    /\ pool.pushed = Cardinality({i \in 1..Len(queue) : queue[i] = Shutdown})
                     + Cardinality({w \in Workers : worker[w].shutdowns = 1})
    /\ pool.state = "dropped" =>
          /\ pool.pushed = pool.size
          /\ \A w \in 1..pool.size :
                worker[w].state = "exited" /\ worker[w].shutdowns = 1
          /\ Len(pool.started) = pool.spawned
          /\ pool.done = 1..pool.spawned
          /\ queue = <<>>

FifoDispatch ==
    /\ \A i, j \in 1..Len(pool.started) : i < j => pool.started[i] < pool.started[j]
    /\ \A w \in Workers :
          worker[w].state = "run" =>
             \A i \in 1..Len(queue) :
                queue[i].tag = "Job" => worker[w].job.id < queue[i].id

\* Three closures were taken, two of them running on the two threads.
FifoDispatch_witness ==
    /\ Len(pool.started) = 3
    /\ worker[1].state = "run" /\ worker[2].state = "run"
    /\ worker[1].job.id > worker[2].job.id

\* ------------------------------------------------------------------ protocol
\* Texts are the sequences of their bytes, as keys and values are.

\* "Key not found", ": ", "Io", "Serialization"
KeyNotFoundText == <<75, 101, 121, 32, 110, 111, 116, 32, 102, 111, 117, 110, 100>>
ColonSpace == <<58, 32>>
IoText == <<73, 111>>
SerializationText == <<83, 101, 114, 105, 97, 108, 105, 122, 97, 116, 105, 111, 110>>

\* The text of an io::Error: that of its kind ("other" for the kinds the model
\* does not tell apart).
cause_text(cause) ==
    IF cause = "InvalidInput"
    THEN <<105, 110, 118, 97, 108, 105, 100>>
    ELSE <<111, 116, 104, 101, 114>>

\* format!("{:?}", e) in the place of format!("{}", e): the derived Debug, which
\* starts with the name of the variant.
display_debug(e) ==
    IF e.kind = "KeyNotFound"
    THEN <<75, 101, 121, 78, 111, 116, 70, 111, 117, 110, 100>> \o ColonSpace \o e.key
    ELSE IoText \o ColonSpace \o <<63>>

\* impl Display for Error
Display(e) ==
    IF e.kind = "KeyNotFound" THEN KeyNotFoundText \o ColonSpace \o e.key
    ELSE IF e.kind = "Io" THEN IoText \o ColonSpace \o cause_text(e.cause)
    ELSE SerializationText \o ColonSpace \o <<63>>

RequestGet(k) == [tag |-> "Get", key |-> k]
RequestSet(k, v) == [tag |-> "Set", key |-> k, value |-> v]
RequestRemove(k) == [tag |-> "Remove", key |-> k]
\* Bytes that are no Request.
Garbage == [tag |-> "Garbage"]

\* The requests clients make.
Requests ==
    {RequestGet(k) : k \in Keys}
    \cup {RequestSet(k, v) : k \in Keys, v \in Values}
    \cup {RequestRemove(k) : k \in Keys}

\* A request a client writes after its first on the same connection.
MoreRequests == {RequestSet(<<98>>, <<50, 50>>), RequestRemove(<<97>>)}

\* From<Result<()>> for SetResponse
set_response_from(res) ==
    IF res.tag = "Ok" THEN [type |-> "SetResponse", tag |-> "Ok"]
    ELSE [type |-> "SetResponse", tag |-> "Err", msg |-> Display(res)]

\* From<Result<Option<String>>> for GetResponse
get_response_from(res) ==
    IF res.tag = "Ok"
    THEN [type |-> "GetResponse", tag |-> "Ok",
          value |-> IF res.some THEN Some(res.value) ELSE None]
    ELSE [type |-> "GetResponse", tag |-> "Err", msg |-> Display(res)]

\* From<Result<()>> for RemoveResponse
remove_response_from(res) ==
    IF res.tag = "Ok" THEN [type |-> "RemoveResponse", tag |-> "Ok"]
    ELSE [type |-> "RemoveResponse", tag |-> "Err", msg |-> Display(res)]

\* A handler that answers every request with a SetResponse.
respond_as_set(req, res) == set_response_from(res)

\* handle_stream, the response of each arm of its match.
respond(req, res) ==
    IF req.tag = "Get" THEN get_response_from(res)
    ELSE IF req.tag = "Set" THEN set_response_from(res)
    ELSE remove_response_from(res)

\* handle_stream, the engine call of each arm of its match, on the tree-backed
\* engine: [db, res].
dispatch(db, req) ==
    IF req.tag = "Get" THEN [db |-> db, res |-> sled_get(db, req.key)]
    ELSE IF req.tag = "Set" THEN sled_set(db, req.key, req.value)
    ELSE sled_remove(db, req.key)

ErrServer(msg) == [tag |-> "Err", kind |-> "Server", msg |-> msg]

\* Client::get, set, remove after the request is written: the match on the
\* response read. Set and Remove responses have the same bytes; a response of
\* another shape does not decode.
client_result(method, resp) ==
    IF resp.tag = "Err" THEN ErrServer(resp.msg)
    ELSE IF method.tag = "Get"
         THEN IF resp.type # "GetResponse" THEN ErrSerialization
              ELSE IF resp.value.some THEN OkSome(resp.value.value) ELSE OkNone
         ELSE IF resp.type = "GetResponse" THEN ErrSerialization ELSE Ok

\* main of the client for get, set and rm: what it prints on stdout and the
\* exit code of the process (1 when main returns an Err).
cli(method, result) ==
    IF method.tag = "Get"
    THEN IF result.tag = "Err" THEN [stdout |-> <<>>, exit |-> 1]
         ELSE IF result.some THEN [stdout |-> result.value, exit |-> 0]
         ELSE [stdout |-> KeyNotFoundText, exit |-> 0]
    ELSE IF method.tag = "Set"
    THEN [stdout |-> <<>>, exit |-> IF result.tag = "Err" THEN 1 ELSE 0]
    ELSE IF result.tag = "Ok" THEN [stdout |-> <<>>, exit |-> 0]
         ELSE IF result.kind = "KeyNotFound" THEN [stdout |-> KeyNotFoundText, exit |-> 1]
         ELSE IF result.kind = "Server" /\ starts_with(result.msg, KeyNotFoundText)
              THEN [stdout |-> KeyNotFoundText, exit |-> 1]
         ELSE [stdout |-> <<>>, exit |-> 1]

\* ------------------------------------------------------------------ server

\* KvsServer::new around the open engine and a pool of n threads.
ServerNew(n) ==
    /\ tree.open
    /\ NewPool(n)

\* A client connects and writes its request, or bytes that are none.
Connect(c, first) ==
    /\ conn[c].state = "none"
    /\ conn' = [conn EXCEPT ![c].state = "open", ![c].sent = <<first>>,
                            ![c].method = first, ![c].nsent = 1]
    /\ UNCHANGED storeVars
    /\ UNCHANGED <<dir, tree, queue, worker, pool>>

\* A peer connects and writes nothing.
ConnectSilent(c) ==
    /\ conn[c].state = "none"
    /\ conn' = [conn EXCEPT ![c].state = "open"]
    /\ UNCHANGED storeVars
    /\ UNCHANGED <<dir, tree, queue, worker, pool>>

\* The client writes one more request on the connection it has.
SendMore(c, r) ==
    /\ conn[c].state \in {"open", "accepted"}
    /\ conn[c].nsent = 1
    /\ conn' = [conn EXCEPT ![c].sent = Append(@, r), ![c].nsent = 2]
    /\ UNCHANGED storeVars
    /\ UNCHANGED <<dir, tree, queue, worker, pool>>

\* serve, one turn of its loop: the stream accepted goes to the pool in a
\* closure that runs handle_and_log.
Accept(c) ==
    /\ pool.state = "live"
    /\ conn[c].state = "open"
    /\ queue' = push(queue, Job(pool.spawned + 1, "conn", c))
    /\ pool' = [pool EXCEPT !.spawned = @ + 1]
    /\ conn' = [conn EXCEPT ![c].state = "accepted", ![c].step = "decode"]
    /\ UNCHANGED storeVars
    /\ UNCHANGED <<dir, tree, worker>>

\* The worker w runs the handler of a connection that is at the given step.
Handling(w, step) ==
    /\ worker[w].state = "run"
    /\ worker[w].job.kind = "conn"
    /\ conn[worker[w].job.conn].step = step

\* handle_and_log returns: the stream is dropped, which closes the connection,
\* and the worker is back at the top of its loop.
Closed(w, c) ==
    /\ worker' = [worker EXCEPT ![w].state = "loop", ![w].job = NoJob]
    /\ pool' = [pool EXCEPT !.done = @ \cup {worker[w].job.id}]
    /\ c.state = "closed" /\ c.step = "done"
    /\ conn' = [conn EXCEPT ![worker[w].job.conn] = c]

\* handle_stream, deserialize_from(&stream) with bytes to read: a Request is
\* decoded, or the bytes are none and the `?` returns the error, which
\* handle_and_log logs.
Decode(w) ==
    /\ Handling(w, "decode")
    /\ conn[worker[w].job.conn].sent # <<>>
    /\ IF Head(conn[worker[w].job.conn].sent) \in Requests
       THEN /\ conn' = [conn EXCEPT ![worker[w].job.conn].req = Head(conn[worker[w].job.conn].sent),
                                    ![worker[w].job.conn].sent = Tail(@),
                                    ![worker[w].job.conn].decoded = @ + 1,
                                    ![worker[w].job.conn].step = "dispatch"]
            /\ UNCHANGED <<worker, pool>>
       ELSE Closed(w, [conn[worker[w].job.conn] EXCEPT
                          !.sent = Tail(@), !.state = "closed", !.step = "done"])
    /\ UNCHANGED storeVars
    /\ UNCHANGED <<dir, tree, queue>>

\* handle_stream, deserialize_from(&stream) with nothing to read for the 30
\* seconds of the read timeout: the `?` returns the error.
Timeout(w) ==
    /\ Handling(w, "decode")
    /\ conn[worker[w].job.conn].sent = <<>>
    /\ Closed(w, [conn[worker[w].job.conn] EXCEPT !.state = "closed", !.step = "done"])
    /\ UNCHANGED storeVars
    /\ UNCHANGED <<dir, tree, queue>>

\* handle_stream, the engine call of the arm of the request.
Dispatch(w) ==
    /\ Handling(w, "dispatch")
    /\ tree' = dispatch(tree, conn[worker[w].job.conn].req).db
    /\ conn' = [conn EXCEPT
                  ![worker[w].job.conn].res = dispatch(tree, conn[worker[w].job.conn].req).res,
                  ![worker[w].job.conn].held = sled_get(tree, conn[worker[w].job.conn].req.key),
                  ![worker[w].job.conn].calls = @ + 1,
                  ![worker[w].job.conn].step = "reply"]
    /\ UNCHANGED storeVars
    /\ UNCHANGED <<dir, queue, worker, pool>>

\* The same with the database failing on I/O: sled's error comes back as
\* Error::Io and the database is as it was.
DispatchFails(w) ==
    /\ Handling(w, "dispatch")
    /\ conn' = [conn EXCEPT
                  ![worker[w].job.conn].res = ErrIo("Other"),
                  ![worker[w].job.conn].held = sled_get(tree, conn[worker[w].job.conn].req.key),
                  ![worker[w].job.conn].calls = @ + 1,
                  ![worker[w].job.conn].step = "reply"]
    /\ UNCHANGED storeVars
    /\ UNCHANGED <<dir, tree, queue, worker, pool>>

\* handle_stream, serialize_into(stream, ..) of the response and the return.
Reply(w) ==
    /\ Handling(w, "reply")
    /\ Closed(w, [conn[worker[w].job.conn] EXCEPT
                     !.out = Append(@, respond(conn[worker[w].job.conn].req,
                                               conn[worker[w].job.conn].res)),
                     !.state = "closed", !.step = "done"])
    /\ UNCHANGED storeVars
    /\ UNCHANGED <<dir, tree, queue>>

\* The method of Client reads the response and returns; main prints and exits.
ClientRecv(c) ==
    /\ conn[c].method \in Requests
    /\ conn[c].client = NoResult
    /\ conn[c].out # <<>>
    /\ conn' = [conn EXCEPT
                  ![c].client = client_result(conn[c].method, Head(conn[c].out)),
                  ![c].cli = cli(conn[c].method,
                                 client_result(conn[c].method, Head(conn[c].out))),
                  ![c].out = Tail(@)]
    /\ UNCHANGED storeVars
    /\ UNCHANGED <<dir, tree, queue, worker, pool>>

\* The server over the tree-backed engine, its pool of one or two threads, and
\* the clients of two connections.
NextServer ==
    \/ SledOpen(1)
    \/ \E n \in Workers : ServerNew(n)
    \/ \E c \in Conns :
          \/ \E r \in Requests \cup {Garbage} : Connect(c, r)
          \/ ConnectSilent(c)
          \/ \E r \in MoreRequests : SendMore(c, r)
          \/ Accept(c)
          \/ ClientRecv(c)
    \/ \E w \in Workers :
          \/ Dequeue(w)
          \/ Decode(w)
          \/ Timeout(w)
          \/ Dispatch(w)
          \/ DispatchFails(w)
          \/ Reply(w)
SpecServer == Init /\ [][NextServer]_vars

\* The responses written on the connection c so far: those the client has not
\* read and the one it has.
Written(c) == Len(conn[c].out) + (IF conn[c].client = NoResult THEN 0 ELSE 1)

\* C13: one request per connection: the handler of an accepted connection
\* decodes one Request, makes one engine call for it, writes one response, of
\* the type of the request (GetResponse for Get, SetResponse for Set,
\* RemoveResponse for Remove), and closes the connection; a second request
\* written on the connection is never read nor processed.
OneRequestPerConnection ==
    /\ [](\A c \in Conns :
            /\ conn[c].decoded <= 1
            /\ conn[c].calls <= conn[c].decoded
            /\ Written(c) <= conn[c].calls
            /\ conn[c].out # <<>> =>
                  conn[c].out[1].type =
                     CASE conn[c].req.tag = "Get" -> "GetResponse"
                       [] conn[c].req.tag = "Set" -> "SetResponse"
                       [] conn[c].req.tag = "Remove" -> "RemoveResponse"
            /\ (conn[c].state = "closed" /\ conn[c].decoded = 1) =>
                  conn[c].calls = 1 /\ Written(c) = 1)
    /\ [][\A c \in Conns :
            conn[c].state = "closed" =>
               /\ conn'[c].state = "closed"
               /\ conn'[c].sent = conn[c].sent
               /\ conn'[c].decoded = conn[c].decoded
               /\ conn'[c].calls = conn[c].calls
               /\ Written(c)' = Written(c)]_vars

\* A connection was served and closed, its client has the response, and a
\* second request written on it is still unread.
OneRequestPerConnection_witness ==
    \E c \in Conns :
       /\ conn[c].state = "closed"
       /\ conn[c].decoded = 1 /\ conn[c].calls = 1
       /\ conn[c].client # NoResult
       /\ conn[c].nsent = 2 /\ Len(conn[c].sent) = 1

\* C14: an engine call that fails is still answered: the server writes the Err
\* variant of the response of the request with the display text of the error,
\* and the client returns Error::Server with that text; for the remove of an
\* absent key the text starts with "Key not found", the command line prints
\* "Key not found" and exits with a code that is not 0; the get of an absent
\* key returns Ok(None).
ErrorsAreReplied ==
    \A c \in Conns :
       /\ (conn[c].res.tag = "Err" /\ conn[c].state = "closed") =>
             /\ Written(c) = 1
             /\ conn[c].out # <<>> =>
                   /\ conn[c].out[1].tag = "Err"
                   /\ conn[c].out[1].msg = Display(conn[c].res)
                   /\ conn[c].out[1].type =
                         CASE conn[c].req.tag = "Get" -> "GetResponse"
                           [] conn[c].req.tag = "Set" -> "SetResponse"
                           [] conn[c].req.tag = "Remove" -> "RemoveResponse"
             /\ conn[c].client # NoResult =>
                   conn[c].client = [tag |-> "Err", kind |-> "Server",
                                     msg |-> Display(conn[c].res)]
       /\ (conn[c].req.tag = "Remove" /\ conn[c].held = OkNone /\ conn[c].calls = 1) =>
             /\ conn[c].res.tag = "Err"
             /\ conn[c].res.kind # "Io" =>
                   /\ conn[c].res = ErrKeyNotFound(conn[c].req.key)
                   /\ conn[c].out # <<>> =>
                         starts_with(conn[c].out[1].msg, KeyNotFoundText)
                   /\ conn[c].client # NoResult =>
                         /\ starts_with(conn[c].client.msg, KeyNotFoundText)
                         /\ conn[c].cli.stdout = KeyNotFoundText
                         /\ conn[c].cli.exit # 0
       /\ (conn[c].req.tag = "Get" /\ conn[c].held = OkNone /\ conn[c].res.tag = "Ok"
           /\ conn[c].client # NoResult) =>
             conn[c].client = OkNone

\* The remove of an absent key was answered and the command line has printed
\* and exited, while another connection had a get of an absent key answered.
ErrorsAreReplied_witness ==
    \E c, d \in Conns :
       /\ conn[c].req.tag = "Remove"
       /\ conn[c].res = ErrKeyNotFound(conn[c].req.key)
       /\ conn[c].cli = [stdout |-> KeyNotFoundText, exit |-> 1]
       /\ conn[d].req.tag = "Get"
       /\ conn[d].client = OkNone

\* The error get is to return for an index entry that designates an Rm record
\* (no such variant exists in core/src/error.rs).
ErrCorruption == [tag |-> "Err", kind |-> "Corruption"]

\* C21: get(k) decodes the record at index[k].pos in the log file numbered
\* index[k].file_num, also when that number is not monotonic, the number of
\* the active log, as for a key recovered from an older file after an
\* interrupted compaction.
GetReadsPointedFile ==
    [][\A t \in Threads :
          GetRead(t) =>
             ret'.res = value_at_pos(disk[StoreOf(t).index[loc[t].call.key].file_num],
                                     StoreOf(t).index[loc[t].call.key].pos).res]_vars

\* C28: when the record get decodes for an index entry is an Rm record, get
\* returns Error::Corruption, not KeyNotFound and not Ok(None).
RmRecordIsCorruption ==
    [][\A t \in Threads :
          (/\ GetRead(t)
           /\ deserialize_from(disk[StoreOf(t).log_file.num], StoreOf(t).log_file.off).ok
           /\ deserialize_from(disk[StoreOf(t).log_file.num], StoreOf(t).log_file.off).op.tag = "Rm")
          => ret'.res = ErrCorruption]_vars

\* C23: in every state of a store that is open, after open, set, remove,
\* compaction and reopen, the index holds k exactly when k is live, and the
\* entry of every k it holds designates, in an existing log file numbered
\* file_num, a complete Set record of k with the value written last for k; no
\* entry designates an Rm record.
IndexInvariant ==
    \A t \in Threads :
       handle[t] # 0 =>
          \A k \in Keys :
             /\ k \in DOMAIN StoreOf(t).index <=> shadow[k] # OkNone
             /\ k \in DOMAIN StoreOf(t).index =>
                   /\ StoreOf(t).index[k].file_num \in DOMAIN disk
                   /\ deserialize_from(disk[StoreOf(t).index[k].file_num],
                                       StoreOf(t).index[k].pos).ok
                   /\ deserialize_from(disk[StoreOf(t).index[k].file_num],
                                       StoreOf(t).index[k].pos).op
                      = OpSet(k, shadow[k].value)

\* A store reopened after a compaction holds both keys, one of them set again
\* since.
IndexInvariant_witness ==
    /\ ret.op = "set"
    /\ 1 \in DOMAIN heap
    /\ heap[1].monotonic = 2
    /\ DOMAIN heap[1].index = Keys
    /\ heap[1].compactions = 1
    /\ Len(disk[2]) > 66

RECURSIVE record_ptrs(_, _, _)
record_ptrs(f, n, pos) ==
    IF pos >= Len(f) \/ ~deserialize_from(f, pos).ok THEN {}
    ELSE {LogPtr(n, pos)} \cup record_ptrs(f, n, deserialize_from(f, pos).next)

\* C30: the stale count is the number of log records on disk that the index
\* does not reference, in every state of a store opened on an empty directory.
StaleCountIsUnreferenced ==
    \A t \in Threads :
       (handle[t] # 0 /\ pc[t] = "idle") =>
          StoreOf(t).compactions =
             Cardinality(UNION {record_ptrs(disk[n], n, 0) : n \in DOMAIN disk}
                         \ {StoreOf(t).index[k] : k \in DOMAIN StoreOf(t).index})

\* The Set records among the records of file f numbered n, as pointers.
set_ptrs(f, n) ==
    {p \in record_ptrs(f, n, 0) : deserialize_from(f, p.pos).op.tag = "Set"}

\* C30 as the code has it: the stale count is the number of Set records on
\* disk that the index does not reference, in every state of a store opened on
\* an empty directory in which no call is running; the Rm records, which the
\* index never references, are not counted.
StaleCountIsDeadSets ==
    \A t \in Threads :
       (handle[t] # 0 /\ pc[t] = "idle") =>
          StoreOf(t).compactions =
             Cardinality(UNION {set_ptrs(disk[n], n) : n \in DOMAIN disk}
                         \ {StoreOf(t).index[k] : k \in DOMAIN StoreOf(t).index})

\* A store reopened on a log that holds an Rm record and one dead Set record.
StaleCountIsDeadSets_witness ==
    /\ ret.op = "open"
    /\ 1 \in DOMAIN heap
    /\ heap[1].compactions = 1
    /\ \E p \in record_ptrs(disk[heap[1].monotonic], heap[1].monotonic, 0) :
          deserialize_from(disk[heap[1].monotonic], p.pos).op.tag = "Rm"

\* File f holds bytes that do not decode as a record.
has_torn_record(f) ==
    \E i \in 1..Len(log_records(f, 0)) : log_records(f, 0)[i].tag = "Bad"

\* On a store whose active log holds an incomplete record, closing and opening
\* again gives a store whose get answers for every key as the store answered
\* before the close.
TornTailLosesNothing ==
    (/\ 1 \in DOMAIN heap /\ \A t \in Threads : pc[t] = "idle"
     /\ has_torn_record(disk[heap[1].monotonic])) =>
          View(open(disk).store, open(disk).disk) = View(heap[1], disk)

\* C22: a partial trailing record is cut off at replay: when open has returned
\* the active log holds complete records only, and on a store that was opened
\* on a log ending in an incomplete record every set and remove made afterwards
\* is replayed by the next open, so that closing and opening again changes no
\* answer of get.
TornTailTruncated ==
    /\ (1 \in DOMAIN heap /\ ret.op = "open") =>
           ~has_torn_record(disk[heap[1].monotonic])
    /\ TornTailLosesNothing

\* C24: in every state outside a running compaction, also after a compaction
\* that returned an error, monotonic is the greatest N of the <N>.log files of
\* the directory; no call makes it smaller; and open on an empty directory
\* gives monotonic = 1 and an empty 1.log.
MonotonicIsGreatest ==
    [][/\ (1 \in DOMAIN heap' /\ \A t \in Threads : pc'[t] \in {"idle", "get_read"}) =>
             heap'[1].monotonic = MaxOf(DOMAIN disk')
       /\ (1 \in DOMAIN heap /\ 1 \in DOMAIN heap') =>
             heap'[1].monotonic >= heap[1].monotonic
       /\ (DOMAIN heap = {} /\ 1 \in DOMAIN heap') =>
             IF DOMAIN disk = {}
             THEN heap'[1].monotonic = 1 /\ disk' = (1 :> <<>>)
             ELSE heap'[1].monotonic >= MaxOf(DOMAIN disk)]_vars

\* C26: a compaction that fails corrupts nothing: when compact has returned an
\* error after rewriting some of the index entries, the set or remove that
\* called it returns that error, and from then on get(k) returns for every key
\* the value written last (None for a key removed or never set). For the key of
\* the call that failed, the value of that call or the one before it: any
\* answer that is not an error is taken.
FailedCompactionKeepsData ==
    [][\A t \in Threads :
          CompactFails(t) =>
             /\ ret'.op \in {"set", "remove"} /\ ret'.res = ErrIo("Other")
             /\ \A k \in Keys :
                   IF k = ret'.key
                   THEN View(heap'[handle[t]], disk')[k].tag = "Ok"
                   ELSE View(heap'[handle[t]], disk')[k] = shadow'[k]]_vars

\* C27: the Set record is in the log, complete, at the offset the index entry
\* of the key holds, when the entry is inserted: if the append fails, set
\* returns the error and leaves index, stale count and monotonic as they were,
\* and the record of every index entry is complete in the file the entry names.
SetWriteOrdering ==
    [][/\ \A t \in Threads, k \in Keys, v \in Values, n \in FailLens :
             SetWriteFails(t, k, v, n) =>
                /\ ret'.res.tag = "Err"
                /\ heap'[handle[t]].index = StoreOf(t).index
                /\ heap'[handle[t]].compactions = StoreOf(t).compactions
                /\ heap'[handle[t]].monotonic = StoreOf(t).monotonic
       /\ \A a \in DOMAIN heap' : \A k \in DOMAIN heap'[a].index :
             /\ heap'[a].index[k].file_num \in DOMAIN disk'
             /\ deserialize_from(disk'[heap'[a].index[k].file_num], heap'[a].index[k].pos).ok]_vars

\* C29: recovery counts exactly: all along the replay, and in the store open
\* returns, compactions is the number of replayed Set records that displaced
\* an index entry plus the number of replayed Rm records, however many they
\* are; the u16 does not wrap around and open does not abort.
ReplayCountsExactly ==
    /\ ret.res # Panicked
    /\ \A t \in Threads :
          /\ pc[t] = "replay" => loc[t].acc.compactions = loc[t].stale
          /\ (handle[t] # 0 /\ ret.op = "open" /\ ret.res = Ok) =>
                StoreOf(t).compactions = loc[t].stale

\* C32: on a store opened on an empty directory, with no crash and no I/O
\* error, whatever sets, removes, compactions, closes and reopens were made:
\* in every state in which no thread is inside compact (the write lock is held
\* for the whole of it) every index entry has file_num = monotonic, the active
\* log is <monotonic>.log, and the record at the entry's pos in the active log
\* is the Set record of the key with its current value.
EntriesInActiveLog ==
    \A t \in Threads :
       (handle[t] # 0 /\ \A u \in Threads : pc[u] \notin {"compact_loop", "compact_swap"}) =>
          /\ StoreOf(t).log_file.num = StoreOf(t).monotonic
          /\ \A k \in DOMAIN StoreOf(t).index :
                /\ StoreOf(t).index[k].file_num = StoreOf(t).monotonic
                /\ deserialize_from(disk[StoreOf(t).log_file.num], StoreOf(t).index[k].pos).ok
                /\ deserialize_from(disk[StoreOf(t).log_file.num], StoreOf(t).index[k].pos).op
                      = OpSet(k, shadow[k].value)

\* A store reopened after two compactions, with an entry written by the last
\* compaction and an entry written by a set after it.
EntriesInActiveLog_witness ==
    /\ ret.op = "open" /\ 1 \in DOMAIN heap
    /\ heap[1].monotonic = 3
    /\ DOMAIN heap[1].index = Keys
    /\ \A k \in Keys : heap[1].index[k].file_num = 3
    /\ \E k \in Keys : heap[1].index[k].pos = 0
    /\ Len(disk[3]) > 44

\* C33: in a run without crash, closing the store and opening the directory
\* again gives back the state and not only the answers of get: the keys of the
\* index, the stale count and monotonic of the store open builds are those of
\* the store before the close, so that as many stale operations as before are
\* left until the next automatic compaction.
ReopenReproducesState ==
    (1 \in DOMAIN heap /\ \A t \in Threads : pc[t] = "idle") =>
        /\ DOMAIN open(disk).store.index = DOMAIN heap[1].index
        /\ open(disk).store.compactions = heap[1].compactions
        /\ open(disk).store.monotonic = heap[1].monotonic
        /\ COMPACTION_LIMIT - open(disk).store.compactions
              = COMPACTION_LIMIT - heap[1].compactions

\* A store reopened after a compaction with both keys indexed and one stale
\* record in the log.
ReopenReproducesState_witness ==
    /\ ret.op = "open" /\ 1 \in DOMAIN heap
    /\ heap[1].monotonic = 2
    /\ heap[1].compactions = 1
    /\ DOMAIN heap[1].index = Keys

\* The same pool with closures that panic among those spawned, the threads
\* scheduled: a thread that can take a step takes one in the end, and a closure
\* that runs returns or panics in the end.
SpecPoolPanicFair ==
    /\ Init /\ [][NextPoolPanic]_vars
    /\ \A w \in Workers : WF_vars(WorkerStep(w) \/ Panic(w))
    /\ WF_vars(DropPush) /\ WF_vars(DropJoin)

\* The closures that wait in the queue, by their numbers.
Queued == {queue[i].id : i \in {j \in 1..Len(queue) : queue[j].tag = "Job"}}

\* The closures that were taken from the queue and called, by their numbers.
Started == {pool.started[i] : i \in 1..Len(pool.started)}

\* No closure is called twice or by two threads, and none disappears: a closure
\* spawned is in the queue once or was taken once, never both; a closure that
\* runs runs on one thread.
AtMostOnce ==
    /\ Queued \cup Started = 1..pool.spawned
    /\ Queued \cap Started = {}
    /\ Cardinality(Queued) = Cardinality({j \in 1..Len(queue) : queue[j].tag = "Job"})
    /\ Cardinality(Started) = Len(pool.started)
    /\ \A w, x \in Workers :
          (worker[w].state = "run" /\ worker[x].state = "run" /\ w # x) =>
             worker[w].job.id # worker[x].job.id
    /\ \A w \in Workers : worker[w].state = "run" => worker[w].job.id \in Started

\* C31: every closure passed to spawn is called exactly once, by one thread:
\* none is called twice, none is lost, and on a pool of n >= 1 threads every
\* closure spawned is called in the end when the closures called before it
\* have ended, as long as the pool is not dropped.
EveryTaskRunsOnce ==
    /\ []AtMostOnce
    /\ \A i \in 1..MaxJobs :
          (pool.state = "live" /\ pool.size >= 1 /\ pool.spawned >= i)
             ~> (i \in Started \/ pool.state # "live")

\* The part of C31 that is about the order of events only.
TasksAtMostOnce == []AtMostOnce

====
